---- MODULE Spec2Model ----
(***************************************************************************)
(* Math Quiz Adventure: the main game controller (Game), the math engine   *)
(* (MathEngine), the persistence layer (Storage) and the Fox-vs-Witch      *)
(* battle (Minigame), modelled as one state machine.  Every handler and    *)
(* every setTimeout callback of the JavaScript source is one action.       *)
(***************************************************************************)
EXTENDS Integers, Sequences, FiniteSets, TLC

VARIABLES
    gameState,        \* Game.gameState
    currentProblem,   \* Game.currentProblem
    currentDifficulty,\* MathEngine.currentDifficulty
    storageAvailable, \* result of Storage.isStorageAvailable() in this session
    localStorage,     \* parsed content of localStorage['mathQuizGame'], or NoData
    defaultData,      \* Storage.defaultData (one shared, mutable object)
    minigame,         \* the fields of the Minigame object
    flyingAnswers,    \* TRUE while the three .flying-answer elements are in the DOM
    timers,           \* pending setTimeout callbacks, in the order they were created
    hist,             \* history counters (observation only, never read by an action)
    lastOp            \* name of the handler or callback that ran last (observation only)

vars == <<gameState, currentProblem, currentDifficulty, storageAvailable, localStorage,
          defaultData, minigame, flyingAnswers, timers, hist, lastOp>>

gameVars    == <<gameState, currentProblem>>
storageVars == <<storageAvailable, localStorage, defaultData>>
battleVars  == <<minigame, flyingAnswers>>

-----------------------------------------------------------------------------
(* Bounds of the exploration *)

MaxSubmits == 10       \* counted submitAnswer calls in one session
MaxWrong == 1          \* incorrect ones among them
MaxStarts == 2         \* startGame calls in one session
MaxTimers == 3         \* setTimeout callbacks pending at the same time
MaxSecret == 1         \* secret battles requested in one session
MaxOperationSpan == 1  \* how many entries of a tier's operation pool are sampled
MaxOperandSpan == 1    \* how many values of an operand range are sampled
MaxEngineOperationSpan == 5  \* the same, for direct calls of the engine
MaxEngineSpan == 12          \* the same, for direct calls of the engine
MaxValue == 3          \* largest magnitude of the numbers handed to validateAnswer
MaxTolerance == 1      \* largest tolerance handed to validateAnswer
MaxUpdates == 3        \* direct calls of the Storage update functions in one session
MaxStatsOperationSpan == 2   \* entries of the operation pool sampled in the statistics session

-----------------------------------------------------------------------------
(* Plain helpers *)

Max(a, b) == IF a >= b THEN a ELSE b
Min(a, b) == IF a <= b THEN a ELSE b
Abs(a) == IF a >= 0 THEN a ELSE -a

RECURSIVE GCD(_, _)
GCD(a, b) == IF b = 0 THEN a ELSE GCD(b, a % b)

\* A JavaScript number that is the ratio of two integers (d > 0), in lowest terms; the
\* battle's option values are such numbers, most of them whole.
Ratio(n, d) == LET g == GCD(Abs(n), d) IN [num |-> n \div g, den |-> d \div g]
Whole(n) == [num |-> n, den |-> 1]
IsInteger(v) == v.den = 1
IsPositive(v) == v.num > 0

NoProblem == [operation |-> "none", answer |-> 0, operands |-> <<0, 0>>, difficulty |-> "none"]

Tiers == {"beginner", "intermediate", "advanced"}
UnknownTier == "expert"
TierNames == Tiers \cup {UnknownTier}
Operations == {"addition", "subtraction", "multiplication", "division"}

-----------------------------------------------------------------------------
(* MathEngine *)

difficulties ==
    [beginner |->
        [addition |-> [min |-> 1, max |-> 10],
         subtraction |-> [min |-> 1, max |-> 10],
         multiplication |-> [min |-> 0, max |-> 5],
         division |-> [divisors |-> <<2, 5, 10>>]],
     intermediate |->
        [addition |-> [min |-> 1, max |-> 99],
         subtraction |-> [min |-> 1, max |-> 50],
         multiplication |-> [min |-> 0, max |-> 10],
         division |-> [divisors |-> <<2, 3, 4, 5, 10>>]],
     advanced |->
        [addition |-> [min |-> 1, max |-> 99],
         subtraction |-> [min |-> 1, max |-> 99],
         multiplication |-> [min |-> 0, max |-> 12],
         division |-> [divisors |-> <<1, 2, 3, 4, 5>>]]]

\* A variant whose beginner pool holds a division.
operationsWithDivision ==
    [beginner |-> <<"addition", "subtraction", "multiplication", "division", "subtraction">>,
     intermediate |-> <<"addition", "subtraction", "multiplication", "division">>,
     advanced |-> <<"addition", "subtraction", "multiplication", "division", "division">>]

operations ==
    [beginner |-> <<"addition", "subtraction", "multiplication", "addition", "subtraction">>,
     intermediate |-> <<"addition", "subtraction", "multiplication", "division">>,
     advanced |-> <<"addition", "subtraction", "multiplication", "division", "division">>]

\* setDifficulty(difficulty) throws for a name that is no key of difficulties.
setDifficultyThrows(difficulty) == difficulty \notin DOMAIN difficulties

\* getRandomNumber(min, max): every integer of min..max can come out; span limits the
\* values an exploration samples to the first span values of the range.
getRandomNumber(min, max, span) == {n \in min..max : n < min + span}

MinQuotient == 1
MaxQuotient == 12

generateAddition(config, d, span) ==
    {[operation |-> "addition", answer |-> a + b, operands |-> <<a, b>>, difficulty |-> d] :
        a \in getRandomNumber(config.min, config.max, span),
        b \in getRandomNumber(config.min, config.max, span)}

\* Faulty variant: the second operand is drawn from the whole range and nothing is swapped.
generateSubtractionUnordered(config, d, span) ==
    {[operation |-> "subtraction", answer |-> a - b, operands |-> <<a, b>>, difficulty |-> d] :
        a \in getRandomNumber(config.min, config.max, span),
        b \in getRandomNumber(config.min, config.max, span)}

generateSubtraction(config, d, span) ==
    UNION {{LET a == IF a0 < b0 THEN b0 ELSE a0
                b == IF a0 < b0 THEN a0 ELSE b0
            IN [operation |-> "subtraction", answer |-> a - b, operands |-> <<a, b>>,
                difficulty |-> d] :
              b0 \in getRandomNumber(config.min, Min(a0, config.max), span)} :
           a0 \in getRandomNumber(config.min, config.max, span)}

\* Faulty variant: the answer is the sum of the factors.
generateMultiplicationAdds(config, d, span) ==
    {[operation |-> "multiplication", answer |-> a + b, operands |-> <<a, b>>, difficulty |-> d] :
        a \in getRandomNumber(config.min, config.max, span),
        b \in getRandomNumber(config.min, config.max, span)}

generateMultiplication(config, d, span) ==
    {[operation |-> "multiplication", answer |-> a * b, operands |-> <<a, b>>, difficulty |-> d] :
        a \in getRandomNumber(config.min, config.max, span),
        b \in getRandomNumber(config.min, config.max, span)}

\* Faulty variant: the quotient is drawn from 0 upwards.
generateDivisionFromZero(config, d, span) ==
    {[operation |-> "division", answer |-> quotient,
      operands |-> <<config.divisors[i + 1] * quotient, config.divisors[i + 1]>>,
      difficulty |-> d] :
        i \in getRandomNumber(0, Len(config.divisors) - 1, span),
        quotient \in getRandomNumber(0, MaxQuotient, span)}

generateDivision(config, d, span) ==
    {[operation |-> "division", answer |-> quotient,
      operands |-> <<config.divisors[i + 1] * quotient, config.divisors[i + 1]>>,
      difficulty |-> d] :
        i \in getRandomNumber(0, Len(config.divisors) - 1, span),
        quotient \in getRandomNumber(MinQuotient, MaxQuotient, span)}

\* generateProblem() with no forced operation, at engine tier d (a key of difficulties).
generateProblem(d, opSpan, span) ==
    UNION {LET selectedOperation == operations[d][i + 1]
               config == difficulties[d]
           IN CASE selectedOperation = "addition" -> generateAddition(config.addition, d, span)
                [] selectedOperation = "subtraction" ->
                       generateSubtraction(config.subtraction, d, span)
                [] selectedOperation = "multiplication" ->
                       generateMultiplication(config.multiplication, d, span)
                [] selectedOperation = "division" -> generateDivision(config.division, d, span) :
           i \in getRandomNumber(0, Len(operations[d]) - 1, opSpan)}

\* A value handed to validateAnswer: a finite number, or something else.
Num(n) == [kind |-> "number", val |-> n]
NotANumber == [kind |-> "NaN", val |-> 0]
AString(n) == [kind |-> "string", val |-> n]
Null == [kind |-> "null", val |-> 0]
Infinite(sign) == [kind |-> "infinity", val |-> sign]

\* typeof userAnswer === 'number'
typeofNumber(userAnswer) == userAnswer.kind \in {"number", "NaN", "infinity"}

isNaN(userAnswer) == userAnswer.kind = "NaN"

\* Faulty variant: the difference has to stay below the tolerance.
validateAnswerBelow(userAnswer, correctAnswer, tolerance) ==
    IF ~typeofNumber(userAnswer) \/ isNaN(userAnswer)
    THEN FALSE
    ELSE IF userAnswer.kind = "infinity"
         THEN FALSE
         ELSE Abs(userAnswer.val - correctAnswer) < tolerance

\* Faulty variant: no typeof check, so a string of digits is subtracted as a number.
validateAnswerUntyped(userAnswer, correctAnswer, tolerance) ==
    IF userAnswer.kind \in {"NaN", "null", "infinity"}
    THEN FALSE
    ELSE Abs(userAnswer.val - correctAnswer) <= tolerance

\* correctAnswer and tolerance are finite numbers; |Infinity - c| and |-Infinity - c| are
\* Infinity, which is above every finite tolerance.
validateAnswer(userAnswer, correctAnswer, tolerance) ==
    IF ~typeofNumber(userAnswer) \/ isNaN(userAnswer)
    THEN FALSE
    ELSE IF userAnswer.kind = "infinity"
         THEN FALSE
         ELSE Abs(userAnswer.val - correctAnswer) <= tolerance

-----------------------------------------------------------------------------
(* Storage.  A store is localStorage's content (ls), the in-memory           *)
(* defaultData object (dd) and what isStorageAvailable() answers (avail).     *)

InitialData ==
    [present |-> TRUE,
     highScores |-> [t \in Tiers |-> 0],
     achievements |-> {},
     lastDifficulty |-> "beginner",
     statistics |->
        [totalProblems |-> 0, correctAnswers |-> 0, streakRecord |-> 0,
         operationStats |-> [op \in Operations |-> [correct |-> 0, total |-> 0]]],
     unlockedCharacters |-> {"fox"}]

NoData == [InitialData EXCEPT !.present = FALSE]

\* mergeWithDefaults(stored): a copy of defaultData overlaid, field by field, with what
\* was stored; saveGameData always stores complete objects, so every field is overlaid.
mergeWithDefaults(dd, stored) ==
    [present |-> TRUE,
     highScores |-> [t \in DOMAIN dd.highScores \cup DOMAIN stored.highScores |->
                        IF t \in DOMAIN stored.highScores
                        THEN stored.highScores[t] ELSE dd.highScores[t]],
     achievements |-> stored.achievements,
     lastDifficulty |-> stored.lastDifficulty,
     statistics |->
        [totalProblems |-> stored.statistics.totalProblems,
         correctAnswers |-> stored.statistics.correctAnswers,
         streakRecord |-> stored.statistics.streakRecord,
         operationStats |-> stored.statistics.operationStats],
     unlockedCharacters |-> IF stored.unlockedCharacters = {} THEN {"fox"}
                            ELSE stored.unlockedCharacters]

\* loadGameData hands out defaultData itself (not a copy) when storage is unavailable
\* or empty.
LoadsDefault(st) == ~st.avail \/ ~st.ls.present

loadGameData(st) == IF LoadsDefault(st) THEN st.dd ELSE mergeWithDefaults(st.dd, st.ls)

saveGameData(st, data) == IF st.avail THEN [st EXCEPT !.ls = data] ELSE st

\* "data = loadGameData(); <change data>; saveGameData(data)": the change lands in
\* defaultData when loadGameData handed out defaultData itself.
MutateAndSave(st, data) ==
    saveGameData(IF LoadsDefault(st) THEN [st EXCEPT !.dd = data] ELSE st, data)

\* A variant that leaves the per-operation counters alone.
updateStatisticsSkipsOperation(st, stats) ==
    LET data == loadGameData(st)
        s0 == data.statistics
        s1 == [s0 EXCEPT !.totalProblems = @ + stats.totalProblems,
                         !.correctAnswers = @ + stats.correctAnswers]
        s2 == IF stats.streakRecord # 0 /\ stats.streakRecord > s1.streakRecord
              THEN [s1 EXCEPT !.streakRecord = stats.streakRecord]
              ELSE s1
    IN MutateAndSave(st, [data EXCEPT !.statistics = s2])

updateStatistics(st, stats) ==
    LET data == loadGameData(st)
        s0 == data.statistics
        s1 == [s0 EXCEPT !.totalProblems = @ + stats.totalProblems,
                         !.correctAnswers = @ + stats.correctAnswers]
        s2 == IF stats.streakRecord # 0 /\ stats.streakRecord > s1.streakRecord
              THEN [s1 EXCEPT !.streakRecord = stats.streakRecord]
              ELSE s1
        s3 == IF stats.operation \in DOMAIN s2.operationStats
              THEN [s2 EXCEPT !.operationStats[stats.operation] =
                        [total |-> @.total + 1,
                         correct |-> @.correct + (IF stats.correct THEN 1 ELSE 0)]]
              ELSE s2
    IN MutateAndSave(st, [data EXCEPT !.statistics = s3])

hasAchievement(st, achievementId) == achievementId \in loadGameData(st).achievements

addAchievement(st, achievementId) ==
    LET data == loadGameData(st)
    IN IF achievementId \in data.achievements
       THEN st
       ELSE MutateAndSave(st, [data EXCEPT !.achievements = @ \cup {achievementId}])

updateSettings(st, difficulty) ==
    LET data == loadGameData(st)
    IN MutateAndSave(st, [data EXCEPT !.lastDifficulty = difficulty])

\* data.highScores[difficulty] || 0
highScoreOf(data, difficulty) ==
    IF difficulty \in DOMAIN data.highScores THEN data.highScores[difficulty] ELSE 0

\* A variant that stores the score without comparing it with the current high score.
updateHighScoreAlways(st, difficulty, score) ==
    LET data == loadGameData(st)
        hs == [t \in DOMAIN data.highScores \cup {difficulty} |->
                 IF t = difficulty THEN score ELSE data.highScores[t]]
    IN [st |-> MutateAndSave(st, [data EXCEPT !.highScores = hs]),
        isNew |-> score > highScoreOf(data, difficulty)]

\* updateHighScore(difficulty, score): the store left behind and the value returned.
updateHighScore(st, difficulty, score) ==
    LET data == loadGameData(st)
        hs == [t \in DOMAIN data.highScores \cup {difficulty} |->
                 IF t = difficulty THEN score ELSE data.highScores[t]]
    IN IF score > highScoreOf(data, difficulty)
       THEN [st |-> MutateAndSave(st, [data EXCEPT !.highScores = hs]), isNew |-> TRUE]
       ELSE [st |-> st, isNew |-> FALSE]

unlockCharacter(st, characterId) ==
    LET data == loadGameData(st)
    IN IF characterId \in data.unlockedCharacters
       THEN st
       ELSE MutateAndSave(st, [data EXCEPT !.unlockedCharacters = @ \cup {characterId}])

\* clearAllData(): removes the stored item; false (nothing done) when storage is
\* unavailable.
clearAllData(st) == IF st.avail THEN [st EXCEPT !.ls = NoData] ELSE st

Store == [ls |-> localStorage, dd |-> defaultData, avail |-> storageAvailable]

SetStore(st) ==
    /\ localStorage' = st.ls
    /\ defaultData' = st.dd
    /\ storageAvailable' = storageAvailable

-----------------------------------------------------------------------------
(* Timers: setTimeout callbacks wait in timers in creation order.           *)

\* Delays in milliseconds.
NextProblemDelay == 2000
MinigameStartDelay == 2000

\* id: the projectile a projectile timer was created for (0 otherwise).
\* handle: the Minigame field the timer id was stored in, tracked: that field still
\* holds this timer's id.  stale (observation only): a round started after the timer
\* was armed.
Timer(kind, delay, id, handle) ==
    [kind |-> kind, delay |-> delay, id |-> id, handle |-> handle,
     tracked |-> handle # "none", stale |-> FALSE]

\* setTimeout(callback, delay), the id stored in timer.handle when that is a field.
setTimeout(ts, timer) ==
    Append([i \in 1..Len(ts) |->
               IF timer.handle # "none" /\ ts[i].handle = timer.handle
               THEN [ts[i] EXCEPT !.tracked = FALSE] ELSE ts[i]],
           timer)

\* if (this.handle) { clearTimeout(this.handle); this.handle = null; }
clearTimeout(ts, handle) ==
    LET keep(t) == ~(t.handle = handle /\ t.tracked) IN SelectSeq(ts, keep)

\* A browser runs callbacks in deadline order: a callback cannot run while one that was
\* created before it with a delay no longer than its own is still pending.
CanFire(i) == \A j \in 1..(i - 1) : timers[j].delay > timers[i].delay

RemoveAt(ts, i) == SubSeq(ts, 1, i - 1) \o SubSeq(ts, i + 1, Len(ts))


-----------------------------------------------------------------------------
(* Game *)

problemsPerLevel == 10

\* Faulty variant: every tier pays the beginner's points.
getBasePointsFlat(difficulty) == 10

getBasePoints(difficulty) ==
    CASE difficulty = "beginner" -> 10
      [] difficulty = "intermediate" -> 15
      [] difficulty = "advanced" -> 20
      [] OTHER -> 10

resetGameState(gs) ==
    [gs EXCEPT !.score = 0, !.streak = 0, !.level = 1, !.problemsSolved = 0,
               !.correctAnswers = 0, !.isActive = FALSE, !.currentLevelProgress = 0]

\* Faulty variant: the level completes one answer late.
checkLevelUpLate(gs) == gs.currentLevelProgress > problemsPerLevel

\* checkLevelUp(): TRUE when triggerMinigame() is called.
checkLevelUp(gs) == gs.currentLevelProgress >= problemsPerLevel

\* Faulty variant: the guard of submitAnswer forgets isActive.
submitAnswerIgnoredWithoutProblem(gs, problem) == problem = NoProblem

\* submitAnswer(): if (!this.gameState.isActive || !this.currentProblem) return;
submitAnswerIgnored(gs, problem) == ~gs.isActive \/ problem = NoProblem

\* A variant whose level-up check never stops the game.
handleCorrectAnswerStaysActive(gs) ==
    LET streak == gs.streak + 1
        bestStreak == IF streak > gs.bestStreak THEN streak ELSE gs.bestStreak
        points == getBasePoints(gs.difficulty) + (streak \div 3) * 2
    IN [gs EXCEPT !.correctAnswers = @ + 1, !.streak = streak,
                  !.bestStreak = bestStreak, !.score = @ + points,
                  !.currentLevelProgress = @ + 1]

\* A variant that never records a best streak.
handleCorrectAnswerForgetsBest(gs) ==
    LET streak == gs.streak + 1
        points == getBasePoints(gs.difficulty) + (streak \div 3) * 2
        g1 == [gs EXCEPT !.correctAnswers = @ + 1, !.streak = streak,
                         !.score = @ + points, !.currentLevelProgress = @ + 1]
    IN IF checkLevelUp(g1) THEN [g1 EXCEPT !.isActive = FALSE] ELSE g1

handleCorrectAnswer(gs) ==
    LET streak == gs.streak + 1
        bestStreak == IF streak > gs.bestStreak THEN streak ELSE gs.bestStreak
        points == getBasePoints(gs.difficulty) + (streak \div 3) * 2
        g1 == [gs EXCEPT !.correctAnswers = @ + 1, !.streak = streak,
                         !.bestStreak = bestStreak, !.score = @ + points,
                         !.currentLevelProgress = @ + 1]
    IN IF checkLevelUp(g1) THEN [g1 EXCEPT !.isActive = FALSE] ELSE g1

\* A variant that forgets to break the streak.
handleIncorrectAnswerKeepsStreak(gs) == gs

handleIncorrectAnswer(gs) == [gs EXCEPT !.streak = 0]

\* checkAchievements(): the ids handed to awardAchievement, in order.
checkAchievements(gs, st) ==
    (IF gs.correctAnswers = 1 THEN <<"first_correct">> ELSE <<>>)
    \o (IF gs.streak = 5 THEN <<"streak_5">>
        ELSE IF gs.streak = 10 THEN <<"streak_10">> ELSE <<>>)
    \o (IF gs.level = 5 THEN <<"level_5">> ELSE <<>>)
    \o (IF gs.score >= 100 /\ ~hasAchievement(st, "score_100") THEN <<"score_100">> ELSE <<>>)

RECURSIVE awardAchievements(_, _)
awardAchievements(st, earned) ==
    IF earned = <<>> THEN st
    ELSE awardAchievements(addAchievement(st, Head(earned)), Tail(earned))

updateStorageStats(st, gs, problem, isCorrect) ==
    updateStatistics(st, [totalProblems |-> 1,
                          correctAnswers |-> IF isCorrect THEN 1 ELSE 0,
                          streakRecord |-> gs.bestStreak,
                          operation |-> problem.operation,
                          correct |-> isCorrect])

\* Game.startGame(difficulty) on a game state and a store: what it leaves behind.
startGame(gs, st, difficulty) ==
    IF setDifficultyThrows(difficulty)
    THEN [gameState |-> [gs EXCEPT !.difficulty = difficulty, !.isActive = FALSE],
          st |-> st, started |-> FALSE]
    ELSE [gameState |-> [resetGameState([gs EXCEPT !.difficulty = difficulty])
                            EXCEPT !.isActive = TRUE],
          st |-> updateSettings(st, difficulty), started |-> TRUE]

\* submitAnswer() past its guard: validation, counters, statistics, achievements.
processAnswer(gs, st, problem, userAnswer) ==
    LET isCorrect == validateAnswer(userAnswer, problem.answer, 0)
        g1 == [gs EXCEPT !.problemsSolved = @ + 1]
        g2 == IF isCorrect THEN handleCorrectAnswer(g1) ELSE handleIncorrectAnswer(g1)
        st1 == updateStorageStats(st, g2, problem, isCorrect)
    IN [gameState |-> g2, st |-> awardAchievements(st1, checkAchievements(g2, st1)),
        ignored |-> FALSE, isCorrect |-> isCorrect,
        triggered |-> isCorrect /\ checkLevelUp(g2)]

\* A variant in which a submission counts only when its statistics can be saved.
submitAnswerNeedsSave(gs, st, problem, userAnswer) ==
    IF submitAnswerIgnored(gs, problem) \/ ~st.avail
    THEN [gameState |-> gs, st |-> st, ignored |-> TRUE, isCorrect |-> FALSE,
          triggered |-> FALSE]
    ELSE processAnswer(gs, st, problem, userAnswer)

\* Game.submitAnswer(userAnswer) on a game state, a store and the current problem.
submitAnswer(gs, st, problem, userAnswer) ==
    IF submitAnswerIgnored(gs, problem)
    THEN [gameState |-> gs, st |-> st, ignored |-> TRUE, isCorrect |-> FALSE,
          triggered |-> FALSE]
    ELSE processAnswer(gs, st, problem, userAnswer)

\* Game.endGame() on a game state and a store.
endGame(gs, st) ==
    IF ~gs.isActive
    THEN [gameState |-> gs, st |-> st, op |-> "endGame:ignored"]
    ELSE LET r == updateHighScore(st, gs.difficulty, gs.score)
         IN [gameState |-> [gs EXCEPT !.isActive = FALSE], st |-> r.st,
             op |-> IF r.isNew THEN "endGame:highScore" ELSE "endGame"]

\* levelUp() that leaves the game stopped.
levelUpStaysStopped(gs) ==
    [gs EXCEPT !.level = @ + 1, !.currentLevelProgress = 0]

\* levelUp(): the counters after a battle that followed a completed level.
levelUp(gs) ==
    [gs EXCEPT !.level = @ + 1, !.currentLevelProgress = 0, !.isActive = TRUE]

-----------------------------------------------------------------------------
(* The same session with failing storage.  hist.twin holds the gameState and *)
(* the in-memory defaultData of a second Game that is handed the same calls,  *)
(* answers and callbacks while every isStorageAvailable() of it answers false. *)

TwinStore(twin) == [ls |-> NoData, dd |-> twin.dd, avail |-> FALSE]

TwinAfter(r) == [gameState |-> r.gameState, dd |-> r.st.dd]

-----------------------------------------------------------------------------
(* Minigame.  The handlers call one another and reach into the Game, so     *)
(* they are written as functions from a world (the mutable objects) to the   *)
(* worlds the handler can leave behind (one per random outcome).             *)

World ==
    [minigame |-> minigame, flyingAnswers |-> flyingAnswers, timers |-> timers,
     gameState |-> gameState, currentProblem |-> currentProblem,
     currentDifficulty |-> currentDifficulty, hist |-> hist]

Become(w) ==
    /\ minigame' = w.minigame
    /\ flyingAnswers' = w.flyingAnswers
    /\ timers' = w.timers
    /\ gameState' = w.gameState
    /\ currentProblem' = w.currentProblem
    /\ currentDifficulty' = w.currentDifficulty
    /\ hist' = w.hist

Positions == <<"high", "middle", "low">>
PositionSet == {"high", "middle", "low"}
SpellTypes == {"input", "choice"}
TimeoutKinds == {"projectile", "collision", "cleanup", "cleanupFast"}

FullHealth == 100
DefaultSpells == 5
HitDamage == 25
WrongInputDamage == 10
FeedbackDelay == 1500
WrongDefeatDelay == 1000
NextSpellDelay == 1000
ReturnDelay == 3000
SecretBattleDelay == 1500
CollisionLead == 500
CleanupLag == 500
MinRemainingTime == 200
FastCollisionLead == 100
FastCleanupLag == 200
VictoryBonus == 50

\* adjustDifficulty(): an unknown name matches no case and changes nothing.
\* A variant that leaves every tier with the default number of spells.
adjustDifficultyKeepsDefault(m) == m

adjustDifficulty(m) ==
    CASE m.difficulty = "beginner" -> [m EXCEPT !.spellSpeed = 7000, !.spellsRemaining = 3]
      [] m.difficulty = "intermediate" -> [m EXCEPT !.spellSpeed = 6000, !.spellsRemaining = 4]
      [] m.difficulty = "advanced" -> [m EXCEPT !.spellSpeed = 5000, !.spellsRemaining = 5]
      [] OTHER -> m

\* removeSpellProjectile(projectile): splice it out of spellProjectiles.
removeSpellProjectile(list, id) == LET keep(x) == x # id IN SelectSeq(list, keep)

\* this.spellProjectiles.forEach(p => this.removeSpellProjectile(p)): the array shrinks
\* under the iteration, so every second element is skipped and stays.
removeEachProjectile(list) == [i \in 1..(Len(list) \div 2) |-> list[2 * i]]

\* removeCurrentSpellProjectile(): pop().
removeCurrentSpellProjectile(list) == IF list = <<>> THEN list ELSE SubSeq(list, 1, Len(list) - 1)

\* Faulty variant: the flying answers go, their timers stay.
clearFlyingAnswersKeepsTimers(w) == [w EXCEPT !.flyingAnswers = FALSE]

clearFlyingAnswers(w) ==
    [w EXCEPT !.timers = clearTimeout(clearTimeout(@, "collisionTimeout"), "cleanupTimeout"),
              !.flyingAnswers = FALSE]

clearAllSpells(w) ==
    LET w1 == [w EXCEPT !.minigame.spellProjectiles = <<>>]
        w2 == clearFlyingAnswers(w1)
    IN [w2 EXCEPT !.minigame.currentSpell = NoProblem]

victoryBonus(difficulty) ==
    VictoryBonus + (IF difficulty = "advanced" THEN 30
                    ELSE IF difficulty = "intermediate" THEN 15 ELSE 0)

victory(w) ==
    LET w1 == [w EXCEPT !.minigame.isActive = FALSE,
                        !.minigame.spellProjectiles = removeEachProjectile(@)]
        w2 == clearFlyingAnswers(w1)
    IN [w2 EXCEPT !.gameState.score = @ + victoryBonus(w.minigame.difficulty),
                  !.hist.twin.gameState.score = @ + victoryBonus(w.minigame.difficulty),
                  !.timers = setTimeout(@, Timer("return:victory", ReturnDelay, 0, "none")),
                  !.hist.victories = @ + 1]

defeat(w) ==
    LET w1 == [w EXCEPT !.minigame.isActive = FALSE,
                        !.minigame.spellProjectiles = removeEachProjectile(@)]
        w2 == clearFlyingAnswers(w1)
    IN [w2 EXCEPT !.timers = setTimeout(@, Timer("return:defeat", ReturnDelay, 0, "none")),
                  !.hist.defeats = @ + 1]

\* Projectiles are DOM elements compared by identity: a new one gets the least number
\* that names no projectile still in the list or still awaited by a timer.
newProjectile(w) ==
    LET used == {w.minigame.spellProjectiles[i] : i \in 1..Len(w.minigame.spellProjectiles)}
                \cup {w.timers[i].id : i \in 1..Len(w.timers)}
    IN CHOOSE n \in 1..(Cardinality(used) + 1) : n \notin used /\ \A k \in 1..(n - 1) : k \in used

\* generateWrongOperation(spell)
generateWrongOperation(spell) ==
    LET a == spell.operands[1]
        b == spell.operands[2]
    IN CASE spell.operation = "addition" -> IF a - b > 0 THEN a - b ELSE a + b + 1
         [] spell.operation = "subtraction" -> a + b
         [] spell.operation = "multiplication" -> a + b
         [] spell.operation = "division" -> a * b
         [] OTHER -> spell.answer + 1

\* generateOperandError(spell): every value its two coin flips can produce.
generateOperandError(spell) ==
    {LET a == spell.operands[1]
         b == spell.operands[2]
         newA == IF modifyFirst THEN Max(1, a + modifier) ELSE a
         newB == IF modifyFirst THEN b ELSE Max(1, b + modifier)
     IN CASE spell.operation = "addition" -> Whole(newA + newB)
          [] spell.operation = "subtraction" -> Whole(Max(0, newA - newB))
          [] spell.operation = "multiplication" -> Whole(newA * newB)
          [] spell.operation = "division" -> Ratio(newA, newB)
          [] OTHER -> Whole(spell.answer + modifier) :
        modifyFirst \in BOOLEAN, modifier \in {1, -1}}

\* The six strategies of generateChoiceOptions, by their place in the array.
StrategyCount == 6

strategyValues(spell, k) ==
    CASE k = 1 -> {Whole(spell.answer + 2)}
      [] k = 2 -> {Whole(spell.answer - 2)}
      [] k = 3 -> {Whole(spell.answer + 1)}
      [] k = 4 -> {Whole(spell.answer - 1)}
      [] k = 5 -> {Whole(generateWrongOperation(spell))}
      [] k = 6 -> generateOperandError(spell)

usedValues(correct, wrongAnswers) ==
    {Whole(correct)} \cup {wrongAnswers[i] : i \in 1..Len(wrongAnswers)}

\* A variant of the first loop that accepts whatever a strategy yields.
RECURSIVE pickWrongAnswersUnchecked(_, _, _)
pickWrongAnswersUnchecked(spell, strategies, wrongAnswers) ==
    IF Len(wrongAnswers) >= 2 \/ strategies = {}
    THEN {wrongAnswers}
    ELSE UNION {UNION {pickWrongAnswersUnchecked(spell, strategies \ {k},
                                                 Append(wrongAnswers, wrongAnswer)) :
                       wrongAnswer \in strategyValues(spell, k)} :
                k \in strategies}

\* The first loop: strategies are drawn without replacement until two wrong answers are
\* accepted or no strategy is left.
RECURSIVE pickWrongAnswers(_, _, _)
pickWrongAnswers(spell, strategies, wrongAnswers) ==
    IF Len(wrongAnswers) >= 2 \/ strategies = {}
    THEN {wrongAnswers}
    ELSE UNION {UNION {pickWrongAnswers(spell, strategies \ {k},
                          IF IsPositive(wrongAnswer)
                             /\ wrongAnswer \notin usedValues(spell.answer, wrongAnswers)
                          THEN Append(wrongAnswers, wrongAnswer)
                          ELSE wrongAnswers) :
                       wrongAnswer \in strategyValues(spell, k)} :
                k \in strategies}

\* The second loop: variations of the correct answer until there are two wrong answers.
RECURSIVE fillWrongAnswers(_, _)
fillWrongAnswers(correct, wrongAnswers) ==
    IF Len(wrongAnswers) >= 2
    THEN {wrongAnswers}
    ELSE UNION {fillWrongAnswers(correct, Append(wrongAnswers, Whole(variation))) :
                variation \in {v \in (correct - 5)..(correct + 4) :
                                  v > 0 /\ Whole(v) \notin usedValues(correct, wrongAnswers)}}

\* The positions.forEach of generateChoiceOptions; index counts from 0 as in the source.
assignPositions(correct, wrongAnswers, correctPos) ==
    LET option(pos, index) ==
            IF pos = correctPos
            THEN [value |-> Whole(correct), isCorrect |-> TRUE]
            ELSE [value |-> wrongAnswers[(IF index < Len(wrongAnswers) THEN index ELSE 0) + 1],
                  isCorrect |-> FALSE]
    IN [correctPosition |-> correctPos, high |-> option("high", 0),
        middle |-> option("middle", 1), low |-> option("low", 2)]

\* The two loops of generateChoiceOptions: every wrongAnswers array they can leave.
collectWrongAnswers(spell) ==
    UNION {fillWrongAnswers(spell.answer, picked) :
           picked \in pickWrongAnswers(spell, 1..StrategyCount, <<>>)}

\* generateChoiceOptions(spell): every result its random draws can produce.
generateChoiceOptions(spell) ==
    UNION {{assignPositions(spell.answer, wrongAnswers, correctPos) :
               correctPos \in PositionSet} :
           wrongAnswers \in collectWrongAnswers(spell)}

\* What a battle reads of its choiceOptions: the position of the correct answer, the
\* flag of each position and the values shown on the flagged answers.
isCorrectFlags(options) ==
    [correctPosition |-> options.correctPosition,
     flaggedValues |-> {options[pos].value : pos \in {p \in PositionSet : options[p].isCorrect}},
     high |-> [isCorrect |-> options.high.isCorrect],
     middle |-> [isCorrect |-> options.middle.isCorrect],
     low |-> [isCorrect |-> options.low.isCorrect]]

\* The spells a battle can cast within the bounds, and for each the flags of the option
\* sets generateChoiceOptions can return for it.
BattleSpells == UNION {generateProblem(d, MaxOperationSpan, MaxOperandSpan) : d \in Tiers}

choiceFlags ==
    [spell \in BattleSpells |-> {isCorrectFlags(o) : o \in generateChoiceOptions(spell)}]

NoChoiceOptions ==
    [correctPosition |-> "none", flaggedValues |-> {}, high |-> [isCorrect |-> FALSE],
     middle |-> [isCorrect |-> FALSE], low |-> [isCorrect |-> FALSE]]

\* A round starts: the timeout timers armed before it and still pending are old ones.
RoundStarts(w) ==
    [w EXCEPT !.timers = [i \in 1..Len(@) |->
                            IF @[i].kind \in TimeoutKinds THEN [@[i] EXCEPT !.stale = TRUE]
                            ELSE @[i]],
              !.hist.roundResolved = FALSE]

setupInputSpell(w) ==
    LET w1 == clearFlyingAnswers(w)
        projectile == newProjectile(w1)
    IN [w1 EXCEPT !.minigame.spellProjectiles = Append(@, projectile),
                  !.timers = setTimeout(@, Timer("projectile", w.minigame.spellSpeed,
                                                  projectile, "none"))]

setupChoiceSpell(w, options) ==
    LET speed == w.minigame.spellSpeed
        w1 == [w EXCEPT !.minigame.spellProjectiles = <<>>,
                        !.minigame.hasSpedUp = FALSE,
                        !.minigame.choiceOptions = options,
                        !.minigame.foxPosition = "middle",
                        !.flyingAnswers = TRUE]
    IN [w1 EXCEPT !.timers =
            setTimeout(setTimeout(@, Timer("collision", speed - CollisionLead, 0,
                                           "collisionTimeout")),
                       Timer("cleanup", speed + CleanupLag, 0, "cleanupTimeout"))]

castFirstSpell(w) ==
    IF w.minigame.spellsRemaining <= 0
    THEN {victory(w)}
    ELSE LET w1 == RoundStarts(clearAllSpells(w))
         IN IF setDifficultyThrows(w.minigame.difficulty)
            THEN {[w1 EXCEPT !.minigame.currentSpellType = type] : type \in SpellTypes}
            ELSE UNION {
                   LET w2 == [w1 EXCEPT !.minigame.currentSpellType = "input",
                                        !.minigame.currentSpell = spell,
                                        !.currentDifficulty = w.minigame.difficulty,
                                        !.hist.tierSet = w.minigame.difficulty]
                       w3 == [w2 EXCEPT !.minigame.currentSpellType = "choice"]
                   IN {setupInputSpell(w2)}
                      \cup {setupChoiceSpell(w3, options) : options \in choiceFlags[spell]} :
                   spell \in generateProblem(w.minigame.difficulty, MaxOperationSpan,
                                             MaxOperandSpan)}

\* A variant without the guard against a second start.
startMinigameUnguarded(w, difficulty, origin) ==
    LET m == adjustDifficulty(
                      [w.minigame EXCEPT !.difficulty = difficulty, !.isActive = TRUE,
                                         !.foxHealth = FullHealth,
                                         !.spellsRemaining = DefaultSpells,
                                         !.spellProjectiles = <<>>,
                                         !.isProcessingCollision = FALSE,
                                         !.foxPosition = "middle"])
             h == [w.hist EXCEPT !.battles = @ + 1, !.origin = origin,
                                 !.victories = 0, !.defeats = 0,
                                 !.scoreAtStart = w.gameState.score,
                                 !.levelAtStart = w.gameState.level,
                                 !.progressAtStart = w.gameState.currentLevelProgress]
         IN castFirstSpell([w EXCEPT !.minigame = m, !.hist = h])

startMinigame(w, difficulty, origin) ==
    IF w.minigame.isActive
    THEN {w}
    ELSE LET m == adjustDifficulty(
                      [w.minigame EXCEPT !.difficulty = difficulty, !.isActive = TRUE,
                                         !.foxHealth = FullHealth,
                                         !.spellsRemaining = DefaultSpells,
                                         !.spellProjectiles = <<>>,
                                         !.isProcessingCollision = FALSE,
                                         !.foxPosition = "middle"])
             h == [w.hist EXCEPT !.battles = @ + 1, !.origin = origin,
                                 !.victories = 0, !.defeats = 0,
                                 !.scoreAtStart = w.gameState.score,
                                 !.levelAtStart = w.gameState.level,
                                 !.progressAtStart = w.gameState.currentLevelProgress]
         IN castFirstSpell([w EXCEPT !.minigame = m, !.hist = h])

spellDeflected(w) ==
    [w EXCEPT !.minigame.spellProjectiles = removeCurrentSpellProjectile(@),
              !.minigame.spellsRemaining = @ - 1,
              !.timers = setTimeout(@, Timer("deflected", FeedbackDelay, 0, "none")),
              !.hist.roundResolved = TRUE]

\* A variant whose hit costs no health.
spellHitsFoxHarmless(w, projectile) ==
    LET w1 == [w EXCEPT !.minigame.spellProjectiles = removeSpellProjectile(@, projectile),
                        !.hist.roundResolved = TRUE]
    IN [w1 EXCEPT !.timers = setTimeout(@, Timer("nextSpell", NextSpellDelay, 0, "none"))]

spellHitsFox(w, projectile) ==
    LET health == Max(0, w.minigame.foxHealth - HitDamage)
        w1 == [w EXCEPT !.minigame.spellProjectiles = removeSpellProjectile(@, projectile),
                        !.minigame.foxHealth = health,
                        !.hist.roundResolved = TRUE]
    IN IF health <= 0
       THEN defeat(w1)
       ELSE [w1 EXCEPT !.timers = setTimeout(@, Timer("nextSpell", NextSpellDelay, 0, "none"))]

\* parseFloat of the text in the answer field.
parseFloat(text) == IF text.kind = "digits" THEN Num(text.val) ELSE NotANumber

\* A variant whose wrong-answer damage is not floored at 0.
handleSpellDefenseNoFloor(w, text) ==
    IF ~w.minigame.isActive \/ w.minigame.currentSpell = NoProblem
    THEN w
    ELSE IF validateAnswer(parseFloat(text), w.minigame.currentSpell.answer, 0)
         THEN spellDeflected(w)
         ELSE LET health == w.minigame.foxHealth - WrongInputDamage
                  w1 == [w EXCEPT !.minigame.foxHealth = health]
              IN IF health <= 0
                 THEN [w1 EXCEPT !.timers =
                          setTimeout(@, Timer("wrongDefeat", WrongDefeatDelay, 0, "none"))]
                 ELSE w1

handleSpellDefense(w, text) ==
    IF ~w.minigame.isActive \/ w.minigame.currentSpell = NoProblem
    THEN w
    ELSE IF validateAnswer(parseFloat(text), w.minigame.currentSpell.answer, 0)
         THEN spellDeflected(w)
         ELSE LET health == Max(0, w.minigame.foxHealth - WrongInputDamage)
                  w1 == [w EXCEPT !.minigame.foxHealth = health]
              IN IF health <= 0
                 THEN [w1 EXCEPT !.timers =
                          setTimeout(@, Timer("wrongDefeat", WrongDefeatDelay, 0, "none"))]
                 ELSE w1

handleCorrectCatch(w) ==
    IF w.minigame.isProcessingCollision
    THEN w
    ELSE LET w1 == clearFlyingAnswers([w EXCEPT !.minigame.isProcessingCollision = TRUE])
         IN [w1 EXCEPT !.minigame.spellsRemaining = @ - 1,
                       !.timers = setTimeout(@, Timer("afterCatch", FeedbackDelay, 0, "none")),
                       !.hist.roundResolved = TRUE]

\* handleIncorrectCatch and handleMissedAnswers have the same effect on the battle.
handleIncorrectCatch(w) ==
    IF w.minigame.isProcessingCollision
    THEN w
    ELSE LET w1 == clearFlyingAnswers([w EXCEPT !.minigame.isProcessingCollision = TRUE])
         IN [w1 EXCEPT !.minigame.foxHealth = Max(0, @ - HitDamage),
                       !.timers = setTimeout(@, Timer("afterHurt", FeedbackDelay, 0, "none")),
                       !.hist.roundResolved = TRUE]

handleMissedAnswers(w) == handleIncorrectCatch(w)

\* The collision callback: checkAnswerCollision for each flying answer still in the DOM,
\* in the order high, middle, low; the first catch removes the other answers.
checkAnswerCollision(w) ==
    IF ~w.flyingAnswers \/ ~w.minigame.isActive \/ w.minigame.currentSpellType # "choice"
    THEN w
    ELSE IF w.minigame.choiceOptions[w.minigame.foxPosition].isCorrect
         THEN handleCorrectCatch(w)
         ELSE handleIncorrectCatch(w)

moveFox(m, direction) ==
    LET currentIndex == CHOOSE i \in 1..3 : Positions[i] = m.foxPosition
    IN IF direction = "up" /\ currentIndex > 1
       THEN [m EXCEPT !.foxPosition = Positions[currentIndex - 1]]
       ELSE IF direction = "down" /\ currentIndex < Len(Positions)
            THEN [m EXCEPT !.foxPosition = Positions[currentIndex + 1]]
            ELSE m

speedUpFlyingAnswers(w, elapsedTime) ==
    IF w.minigame.hasSpedUp \/ ~w.flyingAnswers
    THEN w
    ELSE LET remainingTime == w.minigame.spellSpeed - elapsedTime
             newRemainingTime == Max(MinRemainingTime, remainingTime \div 4)
             t1 == setTimeout(clearTimeout(w.timers, "collisionTimeout"),
                              Timer("collision", newRemainingTime - FastCollisionLead, 0,
                                    "collisionTimeout"))
             t2 == setTimeout(clearTimeout(t1, "cleanupTimeout"),
                              Timer("cleanupFast", newRemainingTime + FastCleanupLag, 0,
                                    "cleanupTimeout"))
         IN [w EXCEPT !.timers = t2, !.minigame.hasSpedUp = TRUE]

\* Game.levelUp() followed by Game.generateNewProblem(), as returnToMainGame calls them.
returnToMainGame(w) ==
    IF w.gameState.currentLevelProgress >= problemsPerLevel
    THEN {[w EXCEPT !.gameState = levelUp(@),
                    !.hist.twin.gameState =
                        IF @.currentLevelProgress >= problemsPerLevel THEN levelUp(@) ELSE @,
                    !.currentProblem = p,
                    !.hist.levelSubmits = 0, !.hist.levelCorrect = 0,
                    !.hist.levelTriggers = 0] :
            p \in generateProblem(w.currentDifficulty, MaxOperationSpan, MaxOperandSpan)}
    ELSE {w}

\* What a direct call of an engine function handed back (nothing yet).
NoReturn == [fn |-> "none"]

-----------------------------------------------------------------------------
(* Initial state: the objects as their constructors leave them, storage empty. *)

\* The fields of a Game, a Minigame and the history as the constructors leave them.
NewGameState ==
    [score |-> 0, streak |-> 0, bestStreak |-> 0, level |-> 1, problemsSolved |-> 0,
     correctAnswers |-> 0, difficulty |-> "beginner", isActive |-> FALSE,
     currentLevelProgress |-> 0]

NewMinigame ==
    [isActive |-> FALSE, foxHealth |-> FullHealth, spellsRemaining |-> DefaultSpells,
     currentSpell |-> NoProblem, spellProjectiles |-> <<>>, difficulty |-> "beginner",
     spellSpeed |-> 4000, isProcessingCollision |-> FALSE, currentSpellType |-> "input",
     foxPosition |-> "middle", choiceOptions |-> NoChoiceOptions, hasSpedUp |-> FALSE]

NewHist ==
    [starts |-> 0, submits |-> 0, wrong |-> 0, secrets |-> 0, battles |-> 0,
     origin |-> "none", victories |-> 0, defeats |-> 0, scoreAtStart |-> 0,
     levelAtStart |-> 0, progressAtStart |-> 0, roundResolved |-> FALSE,
     levelSubmits |-> 0, levelCorrect |-> 0, levelTriggers |-> 0,
     tierSet |-> "beginner", returned |-> NoReturn,
     twin |-> [gameState |-> NewGameState, dd |-> InitialData], updates |-> 0]

Init ==
    /\ gameState = NewGameState
    /\ currentProblem = NoProblem
    /\ currentDifficulty = "beginner"
    /\ storageAvailable \in BOOLEAN
    /\ localStorage = NoData
    /\ defaultData = InitialData
    /\ minigame = NewMinigame
    /\ flyingAnswers = FALSE
    /\ timers = <<>>
    /\ hist = NewHist
    /\ lastOp = "constructor"

\* A battle object whose engine was set to some tier and whose currentSpell was drawn
\* from it (castFirstSpell, ui.js 897-898), with nothing else touched.
ChoiceInit ==
    /\ gameState = NewGameState
    /\ currentProblem = NoProblem
    /\ currentDifficulty \in Tiers
    /\ storageAvailable = TRUE
    /\ localStorage = NoData
    /\ defaultData = InitialData
    /\ minigame \in {[NewMinigame EXCEPT !.currentSpell = spell, !.difficulty = currentDifficulty] :
                       spell \in generateProblem(currentDifficulty, MaxEngineOperationSpan,
                                                 MaxEngineSpan)}
    /\ flyingAnswers = FALSE
    /\ timers = <<>>
    /\ hist = [NewHist EXCEPT !.tierSet = currentDifficulty]
    /\ lastOp = "generateProblem"

-----------------------------------------------------------------------------
(* Game handlers *)

\* Game.startGame(difficulty); opSpan entries of the tier's operation pool are sampled
\* for the first problem.
StartGameSampling(opSpan) ==
    \E difficulty \in TierNames :
        /\ hist.starts < MaxStarts
        /\ LET r == startGame(gameState, Store, difficulty)
               twin == TwinAfter(startGame(hist.twin.gameState, TwinStore(hist.twin),
                                           difficulty))
           IN /\ gameState' = r.gameState
              /\ SetStore(r.st)
              /\ IF r.started
                 THEN /\ currentDifficulty' = difficulty
                      /\ currentProblem' \in generateProblem(difficulty, opSpan,
                                                             MaxOperandSpan)
                      /\ hist' = [hist EXCEPT !.starts = @ + 1, !.levelSubmits = 0,
                                              !.levelCorrect = 0, !.levelTriggers = 0,
                                              !.tierSet = difficulty, !.twin = twin]
                      /\ lastOp' = "startGame"
                 ELSE /\ hist' = [hist EXCEPT !.starts = @ + 1, !.twin = twin]
                      /\ lastOp' = "startGame:error"
                      /\ UNCHANGED <<currentProblem, currentDifficulty>>
        /\ UNCHANGED <<battleVars, timers>>

\* Game.startGame(difficulty)
StartGame == StartGameSampling(MaxOperationSpan)

\* The values a caller hands to Game.submitAnswer for the current problem.
UserAnswers(problem) == {Num(problem.answer), Num(problem.answer + 1), AString(problem.answer)}

\* Game.submitAnswer(userAnswer)
SubmitAnswer ==
    \E userAnswer \in UserAnswers(currentProblem) :
        LET r == submitAnswer(gameState, Store, currentProblem, userAnswer)
            twin == TwinAfter(submitAnswer(hist.twin.gameState, TwinStore(hist.twin),
                                           currentProblem, userAnswer))
            t1 == IF r.triggered
                  THEN setTimeout(timers, Timer("startMinigame", MinigameStartDelay, 0,
                                                "none"))
                  ELSE timers
        IN IF r.ignored
           THEN /\ lastOp' = "submitAnswer:ignored"
                /\ hist' = [hist EXCEPT !.twin = twin]
                /\ UNCHANGED <<gameVars, currentDifficulty, storageVars, battleVars, timers>>
           ELSE /\ hist.submits < MaxSubmits
                /\ ~r.isCorrect => hist.wrong < MaxWrong
                /\ Len(t1) + 1 <= MaxTimers
                /\ gameState' = r.gameState
                /\ timers' = setTimeout(t1, Timer("nextProblem", NextProblemDelay, 0, "none"))
                /\ SetStore(r.st)
                /\ hist' = [hist EXCEPT !.submits = @ + 1,
                                        !.wrong = @ + (IF r.isCorrect THEN 0 ELSE 1),
                                        !.levelSubmits = @ + 1,
                                        !.levelCorrect = @ + (IF r.isCorrect THEN 1 ELSE 0),
                                        !.levelTriggers = @ + (IF r.triggered THEN 1 ELSE 0),
                                        !.twin = twin]
                /\ lastOp' = IF r.isCorrect THEN "submitAnswer:correct"
                             ELSE "submitAnswer:incorrect"
                /\ UNCHANGED <<currentProblem, currentDifficulty, battleVars>>

\* Game.resetGame()
ResetGame ==
    /\ gameState' = [gameState EXCEPT !.isActive = FALSE]
    /\ currentProblem' = NoProblem
    /\ hist' = [hist EXCEPT !.twin.gameState.isActive = FALSE]
    /\ lastOp' = "resetGame"
    /\ UNCHANGED <<currentDifficulty, storageVars, battleVars, timers>>

\* Game.endGame(): the second definition of the class (game.js 424-455), which replaces
\* the one at 127-144.
EndGame ==
    LET r == endGame(gameState, Store)
        twin == TwinAfter(endGame(hist.twin.gameState, TwinStore(hist.twin)))
    IN /\ gameState' = r.gameState
       /\ SetStore(r.st)
       /\ hist' = [hist EXCEPT !.twin = twin]
       /\ lastOp' = r.op
       /\ UNCHANGED <<currentProblem, currentDifficulty, battleVars, timers>>

\* UIController.activateSecretBattle(): the fifth click on the streak fire.
ActivateSecretBattle ==
    /\ hist.secrets < MaxSecret
    /\ Len(timers) + 1 <= MaxTimers
    /\ timers' = setTimeout(timers, Timer("secretBattle", SecretBattleDelay, 0, "none"))
    /\ hist' = [hist EXCEPT !.secrets = @ + 1]
    /\ lastOp' = "activateSecretBattle"
    /\ UNCHANGED <<gameVars, currentDifficulty, storageVars, battleVars>>

-----------------------------------------------------------------------------
(* Minigame handlers (keyboard and button events) *)

\* What the answer field can hold when the player submits.
AnswerTexts(spell) ==
    {[kind |-> "digits", val |-> spell.answer], [kind |-> "digits", val |-> spell.answer + 1],
     [kind |-> "empty", val |-> 0]}

\* Enter or the submit button; the listeners act only on input spells.
HandleSpellDefense ==
    /\ minigame.currentSpellType = "input"
    /\ \E text \in AnswerTexts(minigame.currentSpell) :
          LET w == handleSpellDefense(World, text)
          IN /\ Len(w.timers) <= MaxTimers \/ w.timers = timers
             /\ Become(w)
             /\ lastOp' = IF w = World THEN "handleSpellDefense:ignored"
                          ELSE IF w.minigame.spellsRemaining # minigame.spellsRemaining
                               THEN "handleSpellDefense:correct"
                               ELSE "handleSpellDefense:wrong"
    /\ UNCHANGED storageVars

\* ArrowUp / ArrowDown while a choice spell is flying.
MoveFox ==
    /\ minigame.isActive /\ minigame.currentSpellType = "choice"
    /\ \E direction \in {"up", "down"} : minigame' = moveFox(minigame, direction)
    /\ lastOp' = "moveFox"
    /\ UNCHANGED <<gameVars, currentDifficulty, storageVars, flyingAnswers, timers, hist>>

\* Enter / Space while a choice spell is flying; elapsedTime is Date.now() - spellStartTime.
SpeedUpFlyingAnswers ==
    /\ minigame.isActive /\ minigame.currentSpellType = "choice"
    /\ \E elapsedTime \in {0, minigame.spellSpeed - CollisionLead} :
          Become(speedUpFlyingAnswers(World, elapsedTime))
    /\ lastOp' = "speedUpFlyingAnswers"
    /\ UNCHANGED storageVars

-----------------------------------------------------------------------------
(* setTimeout callbacks.  Fire(i, kind) takes the i-th pending timer.        *)

Fires(i, kinds) == i \in 1..Len(timers) /\ timers[i].kind \in kinds /\ CanFire(i)

Taken(i) == [World EXCEPT !.timers = RemoveAt(@, i)]

\* game.js: the next-problem callback of submitAnswer; opSpan entries of the tier's
\* operation pool are sampled.
NextProblemSampling(opSpan) ==
    \E i \in 1..Len(timers) :
        /\ Fires(i, {"nextProblem"})
        /\ timers' = RemoveAt(timers, i)
        /\ IF gameState.isActive
           THEN currentProblem' \in generateProblem(currentDifficulty, opSpan, MaxOperandSpan)
           ELSE currentProblem' = currentProblem
        /\ lastOp' = "nextProblem"
        /\ UNCHANGED <<gameState, currentDifficulty, storageVars, battleVars, hist>>

NextProblemTimer == NextProblemSampling(MaxOperationSpan)

\* game.js: the callback of triggerMinigame
MinigameStartTimer ==
    \E i \in 1..Len(timers) :
        /\ Fires(i, {"startMinigame"})
        /\ \E w \in startMinigame(Taken(i), gameState.difficulty, "level") : Become(w)
        /\ lastOp' = IF minigame.isActive THEN "startMinigame:ignored" ELSE "startMinigame:level"
        /\ UNCHANGED storageVars

\* ui.js: the callback of activateSecretBattle
SecretBattleTimer ==
    \E i \in 1..Len(timers) :
        /\ Fires(i, {"secretBattle"})
        /\ \E w \in startMinigame(Taken(i), gameState.difficulty, "secret") : Become(w)
        /\ lastOp' = IF minigame.isActive THEN "startMinigame:ignored" ELSE "startMinigame:secret"
        /\ UNCHANGED storageVars

\* createSpellProjectile: the spell reaches the fox
ProjectileTimer ==
    \E i \in 1..Len(timers) :
        /\ Fires(i, {"projectile"})
        /\ LET w == Taken(i)
               projectile == timers[i].id
               hits == minigame.isActive
                       /\ \E k \in 1..Len(minigame.spellProjectiles) :
                             minigame.spellProjectiles[k] = projectile
           IN /\ Become(IF hits THEN spellHitsFox(w, projectile) ELSE w)
              /\ lastOp' = IF timers[i].stale THEN "projectile:stale"
                           ELSE IF hits THEN "spellHitsFox" ELSE "projectile:gone"
        /\ UNCHANGED storageVars

\* createFlyingAnswers / speedUpFlyingAnswers: the collision check
CollisionTimer ==
    \E i \in 1..Len(timers) :
        /\ Fires(i, {"collision"})
        /\ Become(checkAnswerCollision(Taken(i)))
        /\ lastOp' = IF timers[i].stale THEN "collision:stale" ELSE "checkAnswerCollision"
        /\ UNCHANGED storageVars

\* createFlyingAnswers (guarded) and speedUpFlyingAnswers (unguarded): nothing was caught
CleanupTimer ==
    \E i \in 1..Len(timers) :
        /\ Fires(i, {"cleanup", "cleanupFast"})
        /\ LET w == Taken(i)
               runs == timers[i].kind = "cleanupFast"
                       \/ (minigame.isActive /\ minigame.currentSpellType = "choice")
           IN Become(IF runs THEN handleMissedAnswers(w) ELSE w)
        /\ lastOp' = IF timers[i].stale THEN "cleanup:stale" ELSE "handleMissedAnswers"
        /\ UNCHANGED storageVars

\* spellDeflected: cast the next spell or win
DeflectedTimer ==
    \E i \in 1..Len(timers) :
        /\ Fires(i, {"deflected"})
        /\ LET w == Taken(i)
           IN \E w2 \in (IF minigame.spellsRemaining > 0 THEN castFirstSpell(w)
                         ELSE {victory(w)}) : Become(w2)
        /\ lastOp' = IF minigame.spellsRemaining > 0 THEN "castFirstSpell" ELSE "victory"
        /\ UNCHANGED storageVars

\* handleCorrectCatch: cast the next spell or win
AfterCatchTimer ==
    \E i \in 1..Len(timers) :
        /\ Fires(i, {"afterCatch"})
        /\ LET w == [Taken(i) EXCEPT !.minigame.isProcessingCollision = FALSE]
           IN \E w2 \in (IF minigame.spellsRemaining > 0 THEN castFirstSpell(w)
                         ELSE {victory(w)}) : Become(w2)
        /\ lastOp' = IF minigame.spellsRemaining > 0 THEN "castFirstSpell" ELSE "victory"
        /\ UNCHANGED storageVars

\* handleIncorrectCatch / handleMissedAnswers: lose or cast the next spell
AfterHurtTimer ==
    \E i \in 1..Len(timers) :
        /\ Fires(i, {"afterHurt"})
        /\ LET w == [Taken(i) EXCEPT !.minigame.isProcessingCollision = FALSE]
               lost == minigame.foxHealth <= 0
               casts == ~lost /\ minigame.isActive /\ minigame.spellsRemaining > 0
           IN /\ \E w2 \in (IF lost THEN {defeat(w)}
                            ELSE IF casts THEN castFirstSpell(w) ELSE {w}) : Become(w2)
              /\ lastOp' = IF lost THEN "defeat"
                           ELSE IF casts THEN "castFirstSpell" ELSE "afterHurt:idle"
        /\ UNCHANGED storageVars

\* handleSpellDefense: the fox ran out of health on a wrong answer
WrongDefeatTimer ==
    \E i \in 1..Len(timers) :
        /\ Fires(i, {"wrongDefeat"})
        /\ Become(defeat(Taken(i)))
        /\ lastOp' = "defeat"
        /\ UNCHANGED storageVars

\* spellHitsFox: cast the next spell
NextSpellTimer ==
    \E i \in 1..Len(timers) :
        /\ Fires(i, {"nextSpell"})
        /\ LET w == Taken(i)
               casts == minigame.isActive /\ minigame.spellsRemaining > 0
           IN /\ \E w2 \in (IF casts THEN castFirstSpell(w) ELSE {w}) : Become(w2)
              /\ lastOp' = IF casts THEN "castFirstSpell" ELSE "nextSpell:idle"
        /\ UNCHANGED storageVars

\* victory / defeat: back to the main game
ReturnTimer ==
    \E i \in 1..Len(timers) :
        /\ Fires(i, {"return:victory", "return:defeat"})
        /\ \E w \in returnToMainGame(Taken(i)) : Become(w)
        /\ lastOp' = IF timers[i].kind = "return:victory" THEN "returnToMainGame:victory"
                     ELSE "returnToMainGame:defeat"
        /\ UNCHANGED storageVars

-----------------------------------------------------------------------------
(* The engine's functions and generateChoiceOptions, called one at a time.   *)
(* hist.returned records the call and what it handed back.                   *)

\* Faulty variant of setDifficulty: the name is stored before it is looked up.
SetDifficultyStoresFirst ==
    \E difficulty \in TierNames :
        /\ currentDifficulty' = difficulty
        /\ hist' = [hist EXCEPT !.tierSet = IF setDifficultyThrows(difficulty) THEN @
                                            ELSE difficulty,
                                !.returned = [fn |-> "setDifficulty",
                                              difficulty |-> difficulty,
                                              threw |-> setDifficultyThrows(difficulty)]]
        /\ lastOp' = IF setDifficultyThrows(difficulty) THEN "setDifficulty:error"
                     ELSE "setDifficulty"
        /\ UNCHANGED <<gameVars, storageVars, battleVars, timers>>

\* MathEngine.setDifficulty(difficulty)
SetDifficulty ==
    \E difficulty \in TierNames :
        /\ IF setDifficultyThrows(difficulty)
           THEN /\ currentDifficulty' = currentDifficulty
                /\ hist' = [hist EXCEPT !.returned = [fn |-> "setDifficulty",
                                                      difficulty |-> difficulty,
                                                      threw |-> TRUE]]
                /\ lastOp' = "setDifficulty:error"
           ELSE /\ currentDifficulty' = difficulty
                /\ hist' = [hist EXCEPT !.tierSet = difficulty,
                                        !.returned = [fn |-> "setDifficulty",
                                                      difficulty |-> difficulty,
                                                      threw |-> FALSE]]
                /\ lastOp' = "setDifficulty"
        /\ UNCHANGED <<gameVars, storageVars, battleVars, timers>>

\* MathEngine.generateProblem()
GenerateProblem ==
    /\ \E problem \in generateProblem(currentDifficulty, MaxEngineOperationSpan, MaxEngineSpan) :
          hist' = [hist EXCEPT !.returned = [fn |-> "generateProblem", value |-> problem]]
    /\ lastOp' = "generateProblem"
    /\ UNCHANGED <<gameVars, currentDifficulty, storageVars, battleVars, timers>>

\* Minigame.generateChoiceOptions(this.currentSpell), as setupChoiceSpell calls it.
GenerateChoiceOptions ==
    /\ minigame.currentSpell # NoProblem
    /\ \E wrongAnswers \in collectWrongAnswers(minigame.currentSpell),
          correctPos \in PositionSet :
          hist' = [hist EXCEPT !.returned =
                      [fn |-> "generateChoiceOptions",
                       value |-> assignPositions(minigame.currentSpell.answer, wrongAnswers,
                                                 correctPos),
                       wrongAnswers |-> wrongAnswers]]
    /\ lastOp' = "generateChoiceOptions"
    /\ UNCHANGED <<gameVars, currentDifficulty, storageVars, battleVars, timers>>

\* The values a caller can hand to validateAnswer as userAnswer.
EngineAnswers ==
    {Num(n) : n \in (0 - MaxValue - 1)..(MaxValue + 1)}
    \cup {AString(n) : n \in (0 - MaxValue)..MaxValue}
    \cup {NotANumber, Null, Infinite(1), Infinite(-1)}

\* MathEngine.validateAnswer(userAnswer, correctAnswer, tolerance)
ValidateAnswer ==
    /\ \E userAnswer \in EngineAnswers, correctAnswer \in (0 - MaxValue)..MaxValue,
          tolerance \in 0..MaxTolerance :
          hist' = [hist EXCEPT !.returned =
                      [fn |-> "validateAnswer", userAnswer |-> userAnswer,
                       correctAnswer |-> correctAnswer, tolerance |-> tolerance,
                       value |-> validateAnswer(userAnswer, correctAnswer, tolerance)]]
    /\ lastOp' = "validateAnswer"
    /\ UNCHANGED <<gameVars, currentDifficulty, storageVars, battleVars, timers>>

-----------------------------------------------------------------------------
(* Specifications *)

\* The main game: the player's clicks and keys on the start and game screens and the
\* callbacks Game arms.
GameNext ==
    \/ StartGame
    \/ SubmitAnswer
    \/ ResetGame
    \/ NextProblemTimer
    \/ MinigameStartTimer

\* What a battle does by itself, the player not touching a key.
WatchNext ==
    \/ ProjectileTimer
    \/ CollisionTimer
    \/ AfterCatchTimer
    \/ AfterHurtTimer
    \/ NextSpellTimer
    \/ ReturnTimer

\* What follows from the player's keys in a battle.
PlayNext ==
    \/ HandleSpellDefense
    \/ MoveFox
    \/ SpeedUpFlyingAnswers
    \/ DeflectedTimer
    \/ WrongDefeatTimer
    \/ CleanupTimer

SecretNext ==
    \/ ActivateSecretBattle
    \/ SecretBattleTimer

Next == GameNext \/ WatchNext \/ PlayNext \/ SecretNext

\* Every operation in every order.
Spec == Init /\ [][Next]_vars

\* A session of the main game; the level battle runs with the player watching.
SpecGame == Init /\ [][GameNext \/ WatchNext]_vars

\* The secret battle, opened from the start screen, played with every key.
SpecBattle == Init /\ [][SecretNext \/ WatchNext \/ PlayNext]_vars

\* One beginner game with working storage, answered without a mistake up to its level
\* battle, which is then played with every key.
\* Every setTimeout callback of a battle: a pending timer eventually fires.
BattleTimers ==
    \/ SecretBattleTimer \/ ProjectileTimer \/ CollisionTimer \/ CleanupTimer
    \/ DeflectedTimer \/ AfterCatchTimer \/ AfterHurtTimer \/ WrongDefeatTimer
    \/ NextSpellTimer \/ ReturnTimer

LevelBattleInit == Init /\ storageAvailable

\* A secret battle (battles do not touch storage: one storage mode is explored).
SpecBattleLive ==
    LevelBattleInit /\ [][SecretNext \/ WatchNext \/ PlayNext]_vars /\ WF_vars(BattleTimers)

FirstStart ==
    StartGame /\ hist.starts = 0 /\ lastOp' = "startGame" /\ gameState'.difficulty = "beginner"

FlawlessSubmit == SubmitAnswer /\ hist'.wrong = hist.wrong

LevelBattleNext ==
    \/ FirstStart
    \/ FlawlessSubmit
    \/ NextProblemTimer
    \/ MinigameStartTimer
    \/ WatchNext
    \/ PlayNext

SpecLevelBattle == LevelBattleInit /\ [][LevelBattleNext]_vars

\* The engine and the option generator on their own.
\* Games played to their end, one after another.
ScoresNext == StartGame \/ SubmitAnswer \/ NextProblemTimer \/ EndGame

SpecScores == Init /\ [][ScoresNext]_vars

\* One game whose problems are of several operations; no battle.
StatisticsStart == StartGameSampling(MaxStatsOperationSpan) /\ hist.starts = 0

StatisticsNextProblem == NextProblemSampling(MaxStatsOperationSpan)

StatisticsNext == StatisticsStart \/ SubmitAnswer \/ StatisticsNextProblem

SpecStatistics == Init /\ [][StatisticsNext]_vars

\* One beginner game and a secret battle requested once its level is complete: the
\* level's battle and the secret battle compete; the player moves the fox and watches.
LateSecret == ActivateSecretBattle /\ hist.levelTriggers > 0

OverlapNext ==
    \/ FirstStart
    \/ FlawlessSubmit
    \/ NextProblemTimer
    \/ MinigameStartTimer
    \/ LateSecret
    \/ SecretBattleTimer
    \/ WatchNext
    \/ MoveFox

SpecOverlap == LevelBattleInit /\ [][OverlapNext]_vars

\* One beginner game with its level battle, ended at any moment, storage available.
TwinNext ==
    \/ FirstStart \/ SubmitAnswer \/ NextProblemTimer \/ MinigameStartTimer \/ EndGame
    \/ WatchNext \/ PlayNext

SpecTwin == LevelBattleInit /\ [][TwinNext]_vars

-----------------------------------------------------------------------------
(* Direct calls of the Storage object.                                       *)

StorageScores == {10, 20}
StorageAchievements == {"first_correct", "streak_5"}
StorageCharacters == {"fox", "owl"}
StorageStats ==
    [totalProblems : {1}, correctAnswers : {0, 1}, streakRecord : {0, 2},
     operation : {"addition", "division"}, correct : BOOLEAN]

\* One more update, leaving st behind.
Updated(st) ==
    /\ hist.updates < MaxUpdates
    /\ SetStore(st)
    /\ hist' = [hist EXCEPT !.updates = @ + 1]
    /\ UNCHANGED <<gameVars, currentDifficulty, battleVars, timers>>

UpdateHighScore ==
    \E difficulty \in Tiers, score \in StorageScores :
        /\ Updated(updateHighScore(Store, difficulty, score).st)
        /\ lastOp' = "updateHighScore"

AddAchievement ==
    \E achievementId \in StorageAchievements :
        /\ Updated(addAchievement(Store, achievementId))
        /\ lastOp' = "addAchievement"

UpdateStatistics ==
    \E stats \in StorageStats :
        /\ Updated(updateStatistics(Store, stats))
        /\ lastOp' = "updateStatistics"

UnlockCharacter ==
    \E characterId \in StorageCharacters :
        /\ Updated(unlockCharacter(Store, characterId))
        /\ lastOp' = "unlockCharacter"

\* Storage.clearAllData(): true after removing the item, false when storage is
\* unavailable.
ClearAllData ==
    /\ SetStore(clearAllData(Store))
    /\ lastOp' = IF storageAvailable THEN "clearAllData" ELSE "clearAllData:failed"
    /\ UNCHANGED <<gameVars, currentDifficulty, battleVars, timers, hist>>

StorageNext ==
    UpdateHighScore \/ AddAchievement \/ UpdateStatistics \/ UnlockCharacter \/ ClearAllData

SpecStorage == Init /\ [][StorageNext]_vars

\* The level battle with every pending callback eventually run.
LevelLiveNext ==
    \/ FirstStart
    \/ FlawlessSubmit
    \/ NextProblemTimer
    \/ MinigameStartTimer
    \/ WatchNext
    \/ HandleSpellDefense
    \/ MoveFox
    \/ DeflectedTimer
    \/ WrongDefeatTimer
    \/ CleanupTimer

SpecLevelLive ==
    /\ LevelBattleInit
    /\ [][LevelLiveNext]_vars
    /\ WF_vars(BattleTimers \/ NextProblemTimer \/ MinigameStartTimer)

EngineNext ==
    \/ SetDifficulty
    \/ GenerateProblem
    \/ ValidateAnswer

SpecEngine == Init /\ [][EngineNext]_vars

\* The option generator applied to a spell of the engine.
SpecChoice == ChoiceInit /\ [][GenerateChoiceOptions]_vars

-----------------------------------------------------------------------------
(* Properties *)

SubmitOps == {"submitAnswer:ignored", "submitAnswer:correct", "submitAnswer:incorrect"}
ReturnOps == {"returnToMainGame:victory", "returnToMainGame:defeat"}
StaleOps == {"projectile:stale", "collision:stale", "cleanup:stale"}

\* C1 as stated: counting from startGame or the last level-up, triggerMinigame has run
\* exactly once as soon as 10 answers were submitted, correct or not, and not before.
C1_TriggerAtTenthSubmission ==
    hist.levelTriggers = IF hist.levelSubmits >= problemsPerLevel THEN 1 ELSE 0

\* C1 amended: counting from startGame or the last level-up, triggerMinigame has run
\* exactly once as soon as 10 answers were correct, and not before; incorrect answers
\* do not count, and currentLevelProgress is the number of correct answers.
C1_TriggerAtTenthCorrect ==
    /\ hist.levelTriggers = IF hist.levelCorrect >= problemsPerLevel THEN 1 ELSE 0
    /\ gameState.currentLevelProgress = hist.levelCorrect

C1_Witness ==
    /\ lastOp = "submitAnswer:correct"
    /\ hist.levelCorrect = problemsPerLevel
    /\ hist.levelTriggers = 1

\* The points the tiers pay.
TierPoints == [beginner |-> 10, intermediate |-> 15, advanced |-> 20]

\* C2: a correct submission on an active game adds 1 to streak, makes bestStreak the
\* larger of bestStreak and the new streak, adds 1 to currentLevelProgress and adds
\* basePoints(tier) + 2 * floor(newStreak / 3) to score.
C2_CorrectSubmission ==
    [][(lastOp' = "submitAnswer:correct" /\ gameState.difficulty \in Tiers) =>
          LET newStreak == gameState.streak + 1
          IN /\ gameState.isActive
             /\ gameState'.streak = newStreak
             /\ gameState'.bestStreak = Max(gameState.bestStreak, newStreak)
             /\ gameState'.currentLevelProgress = gameState.currentLevelProgress + 1
             /\ gameState'.score = gameState.score + TierPoints[gameState.difficulty]
                                   + 2 * (newStreak \div 3)]_vars

C2_Witness ==
    /\ lastOp = "submitAnswer:correct"
    /\ gameState.difficulty = "advanced"
    /\ gameState.streak = 6
    /\ gameState.bestStreak = 6

\* C3 as stated: right after startGame with a valid tier every counter is zero, level
\* is 1, the game is active and a problem of that tier is current.
C3_StartGameResetsAll ==
    lastOp = "startGame" =>
        /\ gameState.score = 0 /\ gameState.streak = 0 /\ gameState.bestStreak = 0
        /\ gameState.problemsSolved = 0 /\ gameState.correctAnswers = 0
        /\ gameState.currentLevelProgress = 0
        /\ gameState.level = 1
        /\ gameState.isActive
        /\ currentProblem # NoProblem
        /\ currentProblem.difficulty = gameState.difficulty

\* C4: submitAnswer on a game that is not active or has no current problem changes no
\* counter of the game, no stored data and schedules no timer.
C4_SubmitIgnored ==
    [][(lastOp' \in SubmitOps /\ (~gameState.isActive \/ currentProblem = NoProblem)) =>
          UNCHANGED <<gameState, currentProblem, localStorage, defaultData, timers>>]_vars

C4_Witness ==
    /\ lastOp = "submitAnswer:ignored"
    /\ ~gameState.isActive
    /\ currentProblem # NoProblem
    /\ gameState.problemsSolved > 0
    /\ timers # <<>>

\* C5 as stated: a game whose progress has reached 10 is inactive, and the level's
\* minigame starts only for a game whose progress is 10, with that game's tier.
C5_MinigameOnlyAtCompletion ==
    /\ gameState.currentLevelProgress >= problemsPerLevel => ~gameState.isActive
    /\ lastOp = "startMinigame:level" =>
          /\ hist.progressAtStart >= problemsPerLevel
          /\ minigame.difficulty = gameState.difficulty

C7_BonusAtMostOnce ==
    hist.battles > 0 =>
        gameState.score \in {hist.scoreAtStart,
                             hist.scoreAtStart + victoryBonus(minigame.difficulty)}

\* C8 as stated: the defeat transition runs at most once in a battle.
C8_DefeatAtMostOnce == hist.defeats <= 1

\* C9 as stated: once a round is resolved, nothing changes foxHealth or spellsRemaining
\* until the next round starts.
C9_OneResolutionPerRound ==
    [][(hist.roundResolved /\ hist'.roundResolved /\ hist'.battles = hist.battles) =>
          /\ minigame'.foxHealth = minigame.foxHealth
          /\ minigame'.spellsRemaining = minigame.spellsRemaining]_vars

\* C10: the callback of a projectile, collision or cleanup timer that was armed before
\* the latest castFirstSpell changes neither foxHealth nor spellsRemaining.
C10_StaleTimeoutHarmless ==
    [][lastOp' \in StaleOps =>
          /\ minigame'.foxHealth = minigame.foxHealth
          /\ minigame'.spellsRemaining = minigame.spellsRemaining]_vars

C10_Witness ==
    /\ lastOp \in StaleOps
    /\ minigame.isActive
    /\ ~hist.roundResolved
    /\ minigame.currentSpell # NoProblem

\* The call that ran last was generateChoiceOptions.
ChoiceReturned == hist.returned.fn = "generateChoiceOptions"

\* C13 as stated: the three options generateChoiceOptions returns have pairwise distinct
\* values and exactly one of them has isCorrect = true.
C13_ChoiceSetDistinct ==
    ChoiceReturned =>
        LET options == hist.returned.value
        IN /\ options.high.value # options.middle.value
           /\ options.high.value # options.low.value
           /\ options.middle.value # options.low.value
           /\ Cardinality({pos \in PositionSet : options[pos].isCorrect}) = 1

\* C14 as stated: the three option values are integers greater than 0.
C14_ChoiceValuesPositiveIntegers ==
    ChoiceReturned =>
        \A pos \in PositionSet :
            LET value == hist.returned.value[pos].value
            IN IsInteger(value) /\ value.num > 0

\* The call that ran last was generateProblem.
ProblemReturned == hist.returned.fn = "generateProblem"

\* C15: a generated problem's answer is its operation applied to its two operands
\* (a+b, a-b, a*b, dividend/divisor) and is a non-negative integer.
C15_AnswerMatchesOperands ==
    ProblemReturned =>
        LET problem == hist.returned.value
            a == problem.operands[1]
            b == problem.operands[2]
        IN /\ problem.operation \in Operations
           /\ problem.operation = "addition" => problem.answer = a + b
           /\ problem.operation = "subtraction" => problem.answer = a - b
           /\ problem.operation = "multiplication" => problem.answer = a * b
           /\ problem.operation = "division" => b # 0 /\ b * problem.answer = a
           /\ problem.answer \in Nat

C15_Witness ==
    /\ ProblemReturned
    /\ hist.returned.value.operation = "multiplication"
    /\ hist.returned.value.operands = <<3, 4>>
    /\ hist.returned.value.answer = 12

\* C16: a division problem's divisor is one of the current tier's divisors, its
\* dividend is an exact multiple of the divisor and its answer lies between 1 and 12.
C16_DivisionWellFormed ==
    (ProblemReturned /\ hist.returned.value.operation = "division") =>
        LET problem == hist.returned.value
            dividend == problem.operands[1]
            divisor == problem.operands[2]
            divisors == difficulties[currentDifficulty].division.divisors
        IN /\ \E i \in 1..Len(divisors) : divisors[i] = divisor
           /\ dividend % divisor = 0
           /\ problem.answer >= 1 /\ problem.answer <= 12

C16_Witness ==
    /\ ProblemReturned
    /\ currentDifficulty = "advanced"
    /\ hist.returned.value.operation = "division"
    /\ hist.returned.value.operands = <<60, 5>>
    /\ hist.returned.value.answer = 12

\* C17: a subtraction problem has answer >= 0, first operand >= second operand and
\* both operands inside the tier's [min, max].
C17_SubtractionWellFormed ==
    (ProblemReturned /\ hist.returned.value.operation = "subtraction") =>
        LET problem == hist.returned.value
            config == difficulties[currentDifficulty].subtraction
        IN /\ problem.answer >= 0
           /\ problem.operands[1] >= problem.operands[2]
           /\ \A i \in 1..2 : /\ problem.operands[i] >= config.min
                               /\ problem.operands[i] <= config.max

C17_Witness ==
    /\ ProblemReturned
    /\ currentDifficulty = "beginner"
    /\ hist.returned.value.operation = "subtraction"
    /\ hist.returned.value.operands = <<10, 4>>

\* The call that ran last was validateAnswer.
ValidateReturned == hist.returned.fn = "validateAnswer"

\* C18: for a numeric userAnswer u, validateAnswer(u, c, t) is true iff |u - c| <= t;
\* validate(x, x, 0) is true and validate(x, x+1, 0) is false.
C18_ValidateWithinTolerance ==
    (ValidateReturned /\ hist.returned.userAnswer.kind = "number") =>
        LET u == hist.returned.userAnswer.val
            c == hist.returned.correctAnswer
            t == hist.returned.tolerance
        IN /\ hist.returned.value <=> (u - c <= t /\ c - u <= t)
           /\ (t = 0 /\ u = c) => hist.returned.value
           /\ (t = 0 /\ c = u + 1) => ~hist.returned.value

C18_Witness ==
    /\ ValidateReturned
    /\ hist.returned.userAnswer = Num(2)
    /\ hist.returned.correctAnswer = 3
    /\ hist.returned.tolerance = 1
    /\ hist.returned.value

\* C19: validateAnswer returns false (it has no path that raises) for a userAnswer that
\* is not a finite number: a string, null, NaN or an infinity.
C19_ValidateRejectsNonNumbers ==
    (ValidateReturned /\ hist.returned.userAnswer.kind # "number") =>
        hist.returned.value = FALSE

C19_Witness ==
    /\ ValidateReturned
    /\ hist.returned.userAnswer = AString(3)
    /\ hist.returned.correctAnswer = 3
    /\ hist.returned.tolerance = 0
    /\ ~hist.returned.value

CountKinds(ts, kinds) == Cardinality({i \in 1..Len(ts) : ts[i].kind \in kinds})

\* This step runs a callback of one of the kinds (only running one removes it).
CallbackRuns(kinds) == CountKinds(timers', kinds) < CountKinds(timers, kinds)

\* This step is the collision check of a running choice round with the fox at the
\* position of the correct (resp. a wrong) answer.
CatchAt(correct) ==
    /\ lastOp' = "checkAnswerCollision"
    /\ flyingAnswers /\ minigame.isActive /\ minigame.currentSpellType = "choice"
    /\ minigame.choiceOptions[minigame.foxPosition].isCorrect = correct

\* This step starts a round with the attempts the battle had before it.
NextRoundStarts ==
    /\ lastOp' = "castFirstSpell"
    /\ ~hist'.roundResolved
    /\ minigame'.currentSpell # NoProblem
    /\ minigame'.spellsRemaining = minigame.spellsRemaining

VictoryAward == [beginner |-> 50, intermediate |-> 65, advanced |-> 80]

\* C11 as stated: a correct input answer or a catch at the correct position takes
\* exactly 1 from spellsRemaining and leaves foxHealth alone; the callback that follows it
\* ends the battle in victory, adding 50, 65 or 80 to the score, exactly when
\* spellsRemaining is 0, and starts the next round otherwise; nothing else is a victory.
C11_CorrectResolution ==
    [][/\ (lastOp' = "handleSpellDefense:correct" \/ CatchAt(TRUE)) =>
            /\ minigame'.spellsRemaining = minigame.spellsRemaining - 1
            /\ minigame'.foxHealth = minigame.foxHealth
       /\ CallbackRuns({"deflected", "afterCatch"}) =>
            IF minigame.spellsRemaining = 0
            THEN /\ hist'.victories = hist.victories + 1
                 /\ ~minigame'.isActive
                 /\ gameState'.score = gameState.score + VictoryAward[minigame.difficulty]
            ELSE hist'.victories = hist.victories /\ NextRoundStarts
       /\ hist'.victories # hist.victories =>
            CallbackRuns({"deflected", "afterCatch"}) /\ minigame.spellsRemaining = 0]_vars

\* This step is the timeout of the running, still unresolved round: the projectile of an
\* input spell reaches the fox, or the flying answers of a choice spell leave uncaught.
RoundTimesOut ==
    /\ minigame.isActive /\ ~hist.roundResolved
    /\ lastOp' \in {"spellHitsFox", "handleMissedAnswers"}

\* C12 as stated: a catch at a wrong position or a round timeout makes foxHealth
\* max(0, foxHealth - 25) and leaves spellsRemaining and the main score alone; what
\* follows is defeat exactly when foxHealth is 0, and otherwise the next round with the
\* same spellsRemaining; nothing is a defeat unless foxHealth is 0.
C12_IncorrectResolution ==
    [][/\ (CatchAt(FALSE) \/ RoundTimesOut) =>
            /\ minigame'.foxHealth = Max(0, minigame.foxHealth - 25)
            /\ minigame'.spellsRemaining = minigame.spellsRemaining
            /\ gameState'.score = gameState.score
       /\ lastOp' = "spellHitsFox" =>
            (hist'.defeats = hist.defeats + 1) = (minigame'.foxHealth = 0)
       /\ CallbackRuns({"afterHurt"}) =>
            IF minigame.foxHealth = 0
            THEN hist'.defeats = hist.defeats + 1 /\ ~minigame'.isActive
            ELSE hist'.defeats = hist.defeats /\ NextRoundStarts
       /\ CallbackRuns({"nextSpell"}) => NextRoundStarts
       /\ hist'.defeats # hist.defeats => minigame.foxHealth = 0 \/ lastOp' = "spellHitsFox"]_vars

-----------------------------------------------------------------------------
(* Game: failed starts and incorrect submissions.                            *)

\* C21: startGame with an unknown tier name starts no game: afterwards the game is
\* inactive, no new problem was generated, and gameState (counters and difficulty field)
\* and the engine's tier are what they were before the call.
C21_UnknownTierStartsNothing ==
    [][lastOp' = "startGame:error" /\ hist'.starts # hist.starts
       => /\ ~gameState'.isActive
          /\ currentProblem' = currentProblem
          /\ currentDifficulty' = currentDifficulty
          /\ gameState' = [gameState EXCEPT !.isActive = FALSE]]_vars

\* C22: an incorrect submission on an active game (a non-numeric value included) sets
\* streak to 0, increments problemsSolved but not correctAnswers, and leaves score,
\* level, bestStreak and currentLevelProgress unchanged.
C22_IncorrectSubmission ==
    [][hist'.wrong # hist.wrong
       => /\ lastOp' = "submitAnswer:incorrect"
          /\ gameState'.streak = 0
          /\ gameState'.problemsSolved = gameState.problemsSolved + 1
          /\ gameState'.correctAnswers = gameState.correctAnswers
          /\ gameState'.score = gameState.score
          /\ gameState'.level = gameState.level
          /\ gameState'.bestStreak = gameState.bestStreak
          /\ gameState'.currentLevelProgress = gameState.currentLevelProgress]_vars

\* An incorrect submission that broke a streak of at least two.
C22_Witness ==
    /\ lastOp = "submitAnswer:incorrect"
    /\ gameState.streak = 0
    /\ gameState.bestStreak >= 2
    /\ gameState.problemsSolved = gameState.correctAnswers + 1

-----------------------------------------------------------------------------
(* Game.endGame and the stored high scores.                                  *)

EndOps == {"endGame", "endGame:highScore", "endGame:ignored"}

\* The store after the step.
StoreNext == [ls |-> localStorage', dd |-> defaultData', avail |-> storageAvailable']

\* C23: endGame on an active game sets isActive to false and leaves the stored high
\* score of the game's tier at max(previous value, score), signalling a new high score
\* iff score > previous value; the other tiers' high scores are unchanged; endGame on an
\* inactive game changes nothing; and no step lowers a stored high score.
C23_EndGameHighScore ==
    [][LET before == loadGameData(Store)
           after == loadGameData(StoreNext)
           tier == gameState.difficulty
           previous == highScoreOf(before, tier)
       IN /\ \A t \in TierNames : highScoreOf(after, t) >= highScoreOf(before, t)
          /\ lastOp' \in EndOps =>
                IF gameState.isActive
                THEN /\ ~gameState'.isActive
                     /\ highScoreOf(after, tier) = Max(previous, gameState.score)
                     /\ lastOp' = "endGame:highScore" <=> gameState.score > previous
                     /\ \A t \in TierNames \ {tier} :
                            highScoreOf(after, t) = highScoreOf(before, t)
                ELSE UNCHANGED <<gameState, currentProblem, currentDifficulty, storageVars,
                                 timers>>]_vars

\* A second game of a tier ended below that tier's stored high score.
C23_Witness ==
    /\ lastOp = "endGame"
    /\ hist.starts = 2
    /\ gameState.score > 0
    /\ highScoreOf(loadGameData(Store), gameState.difficulty) > gameState.score

-----------------------------------------------------------------------------
(* Storage failures and the core state.                                      *)

CoreState(gs) ==
    [score |-> gs.score, streak |-> gs.streak, bestStreak |-> gs.bestStreak,
     level |-> gs.level, currentLevelProgress |-> gs.currentLevelProgress,
     isActive |-> gs.isActive]

\* C24: after every sequence of startGame, submitAnswer, minigame resolution and endGame
\* the core state (score, streak, bestStreak, level, currentLevelProgress, isActive) of
\* the session whose saves succeed equals that of the session given the same calls while
\* every storage access fails.
C24_CoreStateIgnoresStorage ==
    storageAvailable => CoreState(gameState) = CoreState(hist.twin.gameState)

\* A game won its level battle and was ended with a new high score: saved by the one
\* session, kept in memory by the other.
C24_Witness ==
    /\ storageAvailable
    /\ lastOp = "endGame:highScore"
    /\ hist.victories = 1
    /\ gameState.level = 2
    /\ highScoreOf(localStorage, "beginner") = gameState.score
    /\ highScoreOf(hist.twin.dd, "beginner") = gameState.score
    /\ "score_100" \in hist.twin.dd.achievements

-----------------------------------------------------------------------------
(* Battles: health, spells, start and wrong answers.                         *)

\* C25: in every reachable state of a battle, under every interleaving of answers and
\* timers, 0 <= foxHealth <= 100 and spellsRemaining >= 0.
C25_BattleBounds ==
    minigame.isActive =>
        /\ 0 <= minigame.foxHealth /\ minigame.foxHealth <= FullHealth
        /\ minigame.spellsRemaining >= 0

SpellsAtStart == [beginner |-> 3, intermediate |-> 4, advanced |-> 5]

\* C26: startMinigame(tier) begins a battle with foxHealth = 100 and spellsRemaining =
\* 3, 4, 5 for beginner, intermediate, advanced respectively.
C26_BattleStart ==
    lastOp \in {"startMinigame:level", "startMinigame:secret"} =>
        /\ minigame.isActive
        /\ minigame.foxHealth = 100
        /\ minigame.difficulty \in Tiers =>
              minigame.spellsRemaining = SpellsAtStart[minigame.difficulty]

\* A battle was begun at the intermediate tier.
C26_Witness ==
    /\ lastOp = "startMinigame:level"
    /\ minigame.difficulty = "intermediate"
    /\ minigame.spellsRemaining = 4
    /\ minigame.foxHealth = 100

\* C27: a wrong answer submitted in an input-mode round reduces foxHealth by 10 (floored
\* at 0), leaves spellsRemaining and the current problem unchanged and keeps the round
\* open for another attempt; if that brings foxHealth to 0 the defeat callback is
\* scheduled, and that callback ends the battle in defeat.
C27_WrongInputAnswer ==
    [][/\ lastOp' = "handleSpellDefense:wrong" =>
            /\ minigame.currentSpellType = "input"
            /\ minigame'.foxHealth = Max(0, minigame.foxHealth - 10)
            /\ minigame'.spellsRemaining = minigame.spellsRemaining
            /\ minigame'.currentSpell = minigame.currentSpell
            /\ minigame'.isActive
            /\ minigame'.currentSpellType = "input"
            /\ minigame'.spellProjectiles = minigame.spellProjectiles
            /\ (minigame'.foxHealth = 0) <=> CountKinds(timers', {"wrongDefeat"})
                                             = CountKinds(timers, {"wrongDefeat"}) + 1
       /\ CallbackRuns({"wrongDefeat"}) =>
            /\ lastOp' = "defeat"
            /\ ~minigame'.isActive
            /\ hist'.defeats = hist.defeats + 1]_vars

\* A wrong answer took the last 5 points of health of a fox that had been hit before.
C27_Witness ==
    /\ lastOp = "handleSpellDefense:wrong"
    /\ minigame.foxHealth = 0
    /\ minigame.isActive
    /\ CountKinds(timers, {"wrongDefeat"}) = 1

-----------------------------------------------------------------------------
(* MathEngine: the operations of a tier.                                     *)

\* The operations generateProblem can hand back at a tier.
OperationsYielded(d) ==
    {problem.operation : problem \in generateProblem(d, MaxEngineOperationSpan, MaxEngineSpan)}

\* C28: with no operation forced, generateProblem at the beginner tier never yields a
\* division (only addition, subtraction or multiplication), while the intermediate and
\* advanced tiers can yield each of the four operations.
C28_TierOperations ==
    /\ ProblemReturned /\ hist.returned.value.difficulty = "beginner" =>
          hist.returned.value.operation \in {"addition", "subtraction", "multiplication"}
    /\ ProblemReturned => hist.returned.value.difficulty = currentDifficulty
    /\ OperationsYielded("intermediate") = Operations
    /\ OperationsYielded("advanced") = Operations

\* generateProblem handed back a division at the intermediate tier.
C28_Witness ==
    /\ ProblemReturned
    /\ currentDifficulty = "intermediate"
    /\ hist.returned.value.operation = "division"

-----------------------------------------------------------------------------
(* Battles: one ending.                                                      *)

\* C29: a battle ends in at most one of victory or defeat: once defeat has occurred no
\* later callback of that battle awards the victory bonus, and the main score does not
\* change after the battle's defeat.
C29_OneEnding ==
    /\ [](~(hist.victories > 0 /\ hist.defeats > 0))
    /\ [][(hist.defeats > 0 /\ hist'.battles = hist.battles) =>
             /\ hist'.victories = hist.victories
             /\ gameState'.score = gameState.score]_vars

-----------------------------------------------------------------------------
(* Storage: clearing.                                                        *)

\* C30: after clearAllData succeeds, loadGameData returns the initial defaults (every
\* high score 0, no achievements, all statistics 0, only 'fox' unlocked) whatever
\* updates were performed before, updates made while storage was still empty included.
C30_ClearRestoresDefaults ==
    lastOp = "clearAllData" => loadGameData(Store) = InitialData

-----------------------------------------------------------------------------
(* Main game: one score per problem, reset, level completion.                *)

CountedSubmits == {"submitAnswer:correct", "submitAnswer:incorrect"}

\* C31: each main-game problem is scored at most once: a call of submitAnswer that
\* changed score, streak, problemsSolved or currentLevelProgress is not followed, with no
\* generateNewProblem in between, by another call that changes them.
C31_ScoredAtMostOnce ==
    [][(lastOp \in CountedSubmits /\ lastOp' \in CountedSubmits)
       => /\ gameState'.score = gameState.score
          /\ gameState'.streak = gameState.streak
          /\ gameState'.problemsSolved = gameState.problemsSolved
          /\ gameState'.currentLevelProgress = gameState.currentLevelProgress]_vars

\* resetGame() left the main game stopped and no startGame has succeeded since:
\* currentProblem is null only then (and before the first start).
Stopped == ~gameState.isActive /\ currentProblem = NoProblem

\* C32: after resetGame the main game stays stopped until startGame is called again:
\* isActive remains false, no minigame starts and no new problem becomes current,
\* whatever timers were pending at the time of the reset.
C32_ResetStopsGame ==
    [][(Stopped /\ lastOp' # "startGame")
       => /\ ~gameState'.isActive
          /\ currentProblem' = NoProblem
          /\ hist'.battles = hist.battles]_vars

-----------------------------------------------------------------------------
(* Battles: termination.                                                     *)

\* This step ends the running round of the running battle.
RoundEnds == ~hist.roundResolved /\ hist'.roundResolved /\ hist'.battles = hist.battles

\* This step lowers spellsRemaining or foxHealth.
LowersSpellsOrHealth ==
    \/ minigame'.spellsRemaining < minigame.spellsRemaining
    \/ minigame'.foxHealth < minigame.foxHealth

-----------------------------------------------------------------------------
(* Level completion leads to the next level.                                 *)

\* C34: provided pending timers eventually fire and no reset or restart intervenes, every
\* level completion is eventually followed by a state in which the main game is active
\* again at the next level with progress 0 and a current problem generated on return.
C34_LevelCompletionLeadsToNextLevel ==
    (gameState.currentLevelProgress >= problemsPerLevel)
        ~> (/\ lastOp \in ReturnOps
            /\ gameState.isActive
            /\ gameState.level = hist.levelAtStart + 1
            /\ gameState.currentLevelProgress = 0
            /\ currentProblem # NoProblem)

\* The game is back at level 2 after a lost level battle.
C34_Witness ==
    /\ lastOp = "returnToMainGame:defeat"
    /\ gameState.isActive
    /\ gameState.level = 2
    /\ gameState.currentLevelProgress = 0
    /\ hist.defeats = 1 /\ hist.victories = 0
    /\ currentProblem # NoProblem

-----------------------------------------------------------------------------
(* Bounds of the level progress.                                             *)

\* C35 as stated: in every reachable state currentLevelProgress is between 0 and
\* problemsPerLevel, and a game whose currentLevelProgress equals problemsPerLevel is
\* inactive.
C35_ProgressBounds ==
    /\ gameState.currentLevelProgress >= 0
    /\ gameState.currentLevelProgress <= problemsPerLevel
    /\ gameState.currentLevelProgress = problemsPerLevel => ~gameState.isActive

\* The tenth correct answer of a level has been counted and the game has stopped.
C35_Witness ==
    /\ lastOp = "submitAnswer:correct"
    /\ gameState.currentLevelProgress = problemsPerLevel
    /\ ~gameState.isActive
    /\ gameState.level = 1

-----------------------------------------------------------------------------
(* Order among the counters of a game.                                       *)

\* C36: in every reachable state streak <= bestStreak, correctAnswers <= problemsSolved
\* and level >= 1, and no step other than a startGame that resets the counters lowers
\* the score.
C36_CounterOrder ==
    /\ [](/\ gameState.streak <= gameState.bestStreak
          /\ gameState.correctAnswers <= gameState.problemsSolved
          /\ gameState.level >= 1)
    /\ [][lastOp' # "startGame" => gameState'.score >= gameState.score]_vars

\* A correct answer after a wrong one in a restarted game: the streak is below the best
\* streak, fewer answers are correct than were counted, and the score has grown.
C36_Witness ==
    /\ lastOp = "submitAnswer:correct"
    /\ hist.starts = 2
    /\ gameState.streak = 1
    /\ gameState.bestStreak > 1
    /\ gameState.correctAnswers < gameState.problemsSolved
    /\ gameState.score > 0

-----------------------------------------------------------------------------
(* The statistics kept by Storage for the answers of the main game.          *)

StoredStatistics == loadGameData(Store).statistics

RECURSIVE SumOfOperationStats(_, _)
SumOfOperationStats(ops, field) ==
    IF ops = {} THEN 0
    ELSE LET op == CHOOSE o \in ops : TRUE
         IN StoredStatistics.operationStats[op][field]
            + SumOfOperationStats(ops \ {op}, field)

\* C37: after any sequence of counted submitAnswer calls starting from empty storage,
\* totalProblems is the sum of the four operations' totals, correctAnswers is the sum of
\* their correct counts, correct <= total for every operation, and streakRecord is the
\* largest bestStreak reported so far (bestStreak never falls, so the last one).
C37_StatisticsAddUp ==
    /\ StoredStatistics.totalProblems = SumOfOperationStats(Operations, "total")
    /\ StoredStatistics.correctAnswers = SumOfOperationStats(Operations, "correct")
    /\ \A op \in Operations :
          StoredStatistics.operationStats[op].correct
              <= StoredStatistics.operationStats[op].total
    /\ StoredStatistics.streakRecord = gameState.bestStreak

\* Answers to two kinds of problem, one of them wrong, have been stored.
C37_Witness ==
    /\ lastOp \in CountedSubmits
    /\ storageAvailable
    /\ StoredStatistics.totalProblems >= 3
    /\ StoredStatistics.correctAnswers < StoredStatistics.totalProblems
    /\ StoredStatistics.streakRecord >= 2
    /\ \E a, b \in Operations :
          /\ a # b
          /\ StoredStatistics.operationStats[a].total > 0
          /\ StoredStatistics.operationStats[b].total > 0

-----------------------------------------------------------------------------
(* The distractors of a choice round.                                        *)

\* C38: the two wrong answers generateChoiceOptions collects, before positions are
\* assigned, are both greater than 0, different from the correct answer and different
\* from each other, and for every spell the engine can produce each run of the first
\* loop can be completed to exactly two of them.
C38_TwoDistractors ==
    /\ ChoiceReturned =>
          LET wrongAnswers == hist.returned.wrongAnswers
              correct == Whole(minigame.currentSpell.answer)
          IN /\ Len(wrongAnswers) = 2
             /\ IsPositive(wrongAnswers[1]) /\ IsPositive(wrongAnswers[2])
             /\ wrongAnswers[1] # correct /\ wrongAnswers[2] # correct
             /\ wrongAnswers[1] # wrongAnswers[2]
    /\ (lastOp = "generateProblem" /\ minigame.currentSpell # NoProblem) =>
          \A picked \in pickWrongAnswers(minigame.currentSpell, 1..StrategyCount, <<>>) :
              fillWrongAnswers(minigame.currentSpell.answer, picked) # {}

\* Distractors of 2 - 2: the strategies that yield -2, -1 and 0 were passed over.
C38_Witness ==
    /\ ChoiceReturned
    /\ minigame.currentSpell.operation = "subtraction"
    /\ minigame.currentSpell.answer = 0
    /\ hist.returned.wrongAnswers = <<Whole(1), Whole(2)>>

-----------------------------------------------------------------------------
(* The catch of a choice round.                                              *)

\* This step is the collision check of a running choice round.
CollisionCheck ==
    /\ lastOp' \in {"checkAnswerCollision", "collision:stale"}
    /\ flyingAnswers /\ minigame.isActive /\ minigame.currentSpellType = "choice"

\* This step arms one more callback of the kind.
Arms(kind) == CountKinds(timers', {kind}) = CountKinds(timers, {kind}) + 1

\* This step starts a choice round.
ChoiceRoundStarts ==
    /\ lastOp' \in {"castFirstSpell", "startMinigame:level", "startMinigame:secret"}
    /\ minigame'.isActive
    /\ minigame'.currentSpellType = "choice"
    /\ minigame'.currentSpell # NoProblem
    /\ flyingAnswers'

\* C39 as stated: a choice round starts with the fox in the middle and with options of which
\* exactly the one at correctPosition is flagged isCorrect and shows the spell's answer;
\* its collision check resolves the round as a correct catch iff the fox is at
\* correctPosition and as an incorrect catch otherwise; the fox is always at one of
\* high, middle, low.
C39_ChoiceCatch ==
    /\ [](minigame.foxPosition \in PositionSet)
    /\ [][/\ ChoiceRoundStarts =>
              /\ minigame'.foxPosition = "middle"
              /\ minigame'.choiceOptions.correctPosition \in PositionSet
              /\ \A pos \in PositionSet :
                    minigame'.choiceOptions[pos].isCorrect
                        <=> (pos = minigame'.choiceOptions.correctPosition)
              /\ minigame'.choiceOptions.flaggedValues
                     = {Whole(minigame'.currentSpell.answer)}
          /\ CollisionCheck =>
                IF minigame.foxPosition = minigame.choiceOptions.correctPosition
                THEN Arms("afterCatch") /\ ~Arms("afterHurt")
                ELSE Arms("afterHurt") /\ ~Arms("afterCatch")]_vars

-----------------------------------------------------------------------------
(* A second start of the battle.                                             *)

\* C40: a startMinigame call made while a battle is active changes nothing of the
\* battle (foxHealth, spellsRemaining, tier, current spell and round), counts as no new
\* battle and arms no timer: only the callback that made the call is gone.
C40_SecondStartIgnored ==
    [][lastOp' = "startMinigame:ignored" =>
          /\ minigame.isActive
          /\ minigame' = minigame
          /\ flyingAnswers' = flyingAnswers
          /\ gameState' = gameState
          /\ hist'.battles = hist.battles
          /\ hist'.roundResolved = hist.roundResolved
          /\ Len(timers') = Len(timers) - 1
          /\ \A kind \in {timers[i].kind : i \in 1..Len(timers)} \cup TimeoutKinds :
                CountKinds(timers', {kind}) <= CountKinds(timers, {kind})]_vars

\* The secret battle's start was ignored during the level's battle, the fox hit once.
C40_Witness ==
    /\ lastOp = "startMinigame:ignored"
    /\ hist.origin = "level"
    /\ hist.battles = 1
    /\ hist.secrets = 1
    /\ minigame.isActive
    /\ minigame.foxHealth = 75
    /\ minigame.spellsRemaining = 3

====
